---- MODULE Spec2Model ----
(***************************************************************************)
(* Model of the procedural shelf generator: the monolithic script          *)
(* blender/gen_shelf.py and the modular script blender/gen_shelf_modular.py*)
(* with its geometry/ and utils/ modules.                                  *)
(*                                                                         *)
(* Lengths are exact rationals in metres, written <<n, d>> in lowest terms *)
(* with d > 0.  A mesh is a sequence of vertices and a sequence of faces   *)
(* (tuples of 1-based vertex indices).  The host scene is a function from  *)
(* object ids to objects.                                                  *)
(***************************************************************************)
EXTENDS Integers, Sequences, FiniteSets, TLC

(* ---------------------------------------------------------------------- *)
(* Bounds of the model                                                      *)
(* ---------------------------------------------------------------------- *)
MaxBrackets == 4
MaxTenths == 3
MaxOptions == 2
MaxAssignments == 3

(* ---------------------------------------------------------------------- *)
(* Exact rational arithmetic (the float arithmetic of the scripts)         *)
(* ---------------------------------------------------------------------- *)
Abs(n) == IF n < 0 THEN -n ELSE n

RECURSIVE GCD(_, _)
GCD(a, b) == IF b = 0 THEN a ELSE GCD(b, a % b)

R(n, d) ==
    LET s == IF d < 0 THEN -1 ELSE 1
        g == GCD(Abs(n), Abs(d))
    IN  << (s * n) \div g, (s * d) \div g >>

Zero == << 0, 1 >>
RAdd(a, b) == R(a[1] * b[2] + b[1] * a[2], a[2] * b[2])
RNeg(a) == << -a[1], a[2] >>
RSub(a, b) == RAdd(a, RNeg(b))
RMul(a, b) == R(a[1] * b[1], a[2] * b[2])
RDiv(a, b) == R(a[1] * b[2], a[2] * b[1])
RInt(k) == << k, 1 >>
RLe(a, b) == a[1] * b[2] <= b[1] * a[2]
RMin(a, b) == IF RLe(a, b) THEN a ELSE b
RMax(a, b) == IF RLe(a, b) THEN b ELSE a
Tenths(k) == R(k, 10)
Hundredths(k) == R(k, 100)

RECURSIVE RMinOf(_)
RMinOf(s) == IF Len(s) = 1 THEN s[1] ELSE RMin(s[1], RMinOf(Tail(s)))
RECURSIVE RMaxOf(_)
RMaxOf(s) == IF Len(s) = 1 THEN s[1] ELSE RMax(s[1], RMaxOf(Tail(s)))

Vec(x, y, z) == [x |-> x, y |-> y, z |-> z]
Origin == Vec(Zero, Zero, Zero)
VAdd(a, b) == Vec(RAdd(a.x, b.x), RAdd(a.y, b.y), RAdd(a.z, b.z))
VScale(a, s) == Vec(RMul(a.x, s.x), RMul(a.y, s.y), RMul(a.z, s.z))

(* ---------------------------------------------------------------------- *)
(* Meshes                                                                   *)
(* ---------------------------------------------------------------------- *)
EmptyMesh == [verts |-> << >>, faces |-> << >>]

Half == R(1, 2)
MHalf == R(-1, 2)

\* bmesh.ops.create_cube(size=1.0) / primitive_cube_add(size=1): the unit cube
UnitCube ==
    [verts |-> << Vec(MHalf, MHalf, MHalf), Vec(MHalf, MHalf, Half),
                  Vec(MHalf, Half, MHalf),  Vec(MHalf, Half, Half),
                  Vec(Half, MHalf, MHalf),  Vec(Half, MHalf, Half),
                  Vec(Half, Half, MHalf),   Vec(Half, Half, Half) >>,
     faces |-> << <<1, 2, 4, 3>>, <<3, 4, 8, 7>>, <<7, 8, 6, 5>>,
                  <<5, 6, 2, 1>>, <<3, 7, 5, 1>>, <<8, 4, 2, 6>> >>]

\* bmesh.ops.scale(bm, vec, verts=bm.verts) and an applied object scale
ScaleMesh(m, s) ==
    [m EXCEPT !.verts = [i \in 1..Len(m.verts) |-> VScale(m.verts[i], s)]]

TranslateVerts(m, idx, t) ==
    [m EXCEPT !.verts = [i \in 1..Len(m.verts) |->
                            IF i \in idx THEN VAdd(m.verts[i], t) ELSE m.verts[i]]]

Xs(m) == [i \in 1..Len(m.verts) |-> m.verts[i].x]
Ys(m) == [i \in 1..Len(m.verts) |-> m.verts[i].y]
Zs(m) == [i \in 1..Len(m.verts) |-> m.verts[i].z]

\* axis-aligned bounding box of the mesh data; all zero for a mesh without vertices
BBoxMin(m) ==
    IF Len(m.verts) = 0 THEN Origin
    ELSE Vec(RMinOf(Xs(m)), RMinOf(Ys(m)), RMinOf(Zs(m)))
BBoxMax(m) ==
    IF Len(m.verts) = 0 THEN Origin
    ELSE Vec(RMaxOf(Xs(m)), RMaxOf(Ys(m)), RMaxOf(Zs(m)))

\* obj.dimensions: extent of the bounding box (object scale is always 1 here)
Dimensions(obj) ==
    Vec(RSub(BBoxMax(obj.data).x, BBoxMin(obj.data).x),
        RSub(BBoxMax(obj.data).y, BBoxMin(obj.data).y),
        RSub(BBoxMax(obj.data).z, BBoxMin(obj.data).z))

(* ---------------------------------------------------------------------- *)
(* The host: scene objects, files, console                                  *)
(* ---------------------------------------------------------------------- *)
MasterCollection == "Scene Collection"

NewObj(name, type, data) ==
    [name |-> name, type |-> type, data |-> data,
     location |-> Origin, rotation |-> Origin,
     materials |-> << >>, select |-> FALSE, hide |-> FALSE,
     users_collection |-> {MasterCollection}]

Ids(w) == DOMAIN w.objects

\* the record of what was done to which object, in order: an object is built,
\* positioned, given a material; an export is started (id 0)
Stage(w, stage, id) == [w EXCEPT !.stages = Append(@, [stage |-> stage, id |-> id])]
Names(w) == {w.objects[i].name : i \in Ids(w)}

NameSuffix == << ".001", ".002", ".003", ".004", ".005", ".006", ".007", ".008" >>

RECURSIVE FreeSuffix(_, _, _)
FreeSuffix(w, name, k) ==
    IF k > Len(NameSuffix) \/ (name \o NameSuffix[k]) \notin Names(w) THEN k
    ELSE FreeSuffix(w, name, k + 1)

\* the host keeps object names unique by appending .001, .002, ...
UniqueName(w, name) ==
    IF name \notin Names(w) THEN name
    ELSE name \o NameSuffix[FreeSuffix(w, name, 1)]

\* bpy.data.objects.new(name, mesh) followed by collection.objects.link(obj);
\* the new object gets the id w.next_id
LinkNewObject(w, name, type, data) ==
    Stage([w EXCEPT !.objects = @ @@ (w.next_id :> NewObj(UniqueName(w, name), type, data)),
                    !.next_id = @ + 1],
          "build", w.next_id)

\* bpy.ops.*_add: the new object is created at the origin, becomes the only
\* selected object and the active one
OpsAdd(w, name, type, data) ==
    LET id == w.next_id
        desel == [i \in Ids(w) |-> [w.objects[i] EXCEPT !.select = FALSE]]
    IN  Stage([w EXCEPT !.objects = desel @@
                            (id :> [NewObj(UniqueName(w, name), type, data) EXCEPT !.select = TRUE]),
                        !.next_id = @ + 1,
                        !.active = id],
              "build", id)

Rename(w, id, name) ==
    IF w.objects[id].name = name THEN w
    ELSE [w EXCEPT !.objects[id].name =
             UniqueName([w EXCEPT !.objects = [i \in Ids(w) \ {id} |-> w.objects[i]]], name)]

SetActive(w, id) == [w EXCEPT !.active = id]
SelectSet(w, id) == [w EXCEPT !.objects[id].select = TRUE]
\* bpy.ops.object.select_all(action='SELECT') selects the visible objects
SelectAll(w) ==
    [w EXCEPT !.objects = [i \in Ids(w) |->
                             IF w.objects[i].hide THEN w.objects[i]
                             ELSE [w.objects[i] EXCEPT !.select = TRUE]]]
DeselectAll(w) == [w EXCEPT !.objects = [i \in Ids(w) |-> [w.objects[i] EXCEPT !.select = FALSE]]]
Selected(w) == {i \in Ids(w) : w.objects[i].select}
Say(w, msg) == [w EXCEPT !.out = Append(@, msg)]

\* bpy.ops.object.delete(): removes the selected objects
DeleteSelected(w) ==
    [w EXCEPT !.objects = [i \in Ids(w) \ Selected(w) |-> w.objects[i]],
              !.active = IF w.active \in Selected(w) THEN 0 ELSE w.active]

(* ---------------------------------------------------------------------- *)
(* Edit-mode mesh operators used by create_shelf_base                       *)
(* An edit mesh is a mesh with the set of selected face indices.           *)
(* ---------------------------------------------------------------------- *)
FaceVerts(m, sel) == UNION {{m.faces[f][k] : k \in 1..Len(m.faces[f])} : f \in sel}
AllFaces(m) == 1..Len(m.faces)

\* bpy.ops.mesh.select_face_by_sides(number=n, type='EQUAL'), extending the selection
SelectFaceBySides(m, sel, n) == sel \cup {f \in AllFaces(m) : Len(m.faces[f]) = n}

\* bpy.ops.mesh.inset_faces(thickness): a region inset adds a ring of faces along
\* the boundary of the selected region.  The script applies it to all faces of a
\* closed box, a region without boundary, which the inset leaves as it is.
InsetFaces(m, sel, thickness) == m

RECURSIVE SetToSortedSeq(_)
SetToSortedSeq(S) ==
    IF S = {} THEN << >>
    ELSE LET mn == CHOOSE x \in S : \A y \in S : x <= y
         IN  << mn >> \o SetToSortedSeq(S \ {mn})

\* bpy.ops.mesh.delete(type='FACE'): removes the selected faces and the vertices
\* that belonged to those faces only; the remaining vertices are renumbered
DeleteFaces(m, sel) ==
    LET keptF == SetToSortedSeq(AllFaces(m) \ sel)
        used == UNION {{m.faces[keptF[k]][j] : j \in 1..Len(m.faces[keptF[k]])} : k \in 1..Len(keptF)}
        loose == (1..Len(m.verts)) \ FaceVerts(m, AllFaces(m))
        keptV == SetToSortedSeq(used \cup loose)
        newIdx(v) == CHOOSE k \in 1..Len(keptV) : keptV[k] = v
    IN  [verts |-> [k \in 1..Len(keptV) |-> m.verts[keptV[k]]],
         faces |-> [k \in 1..Len(keptF) |->
                      [j \in 1..Len(m.faces[keptF[k]]) |-> newIdx(m.faces[keptF[k]][j])]]]

Reverse(s) == [k \in 1..Len(s) |-> s[Len(s) + 1 - k]]

\* face f of mesh m has the edge between vertices a and b
HasEdge(m, f, a, b) ==
    LET n == Len(m.faces[f])
    IN  \E j \in 1..n : {m.faces[f][j], m.faces[f][(j % n) + 1]} = {a, b}

\* the edges of face f, in loop order, that belong to no other face of the
\* region sel: the border of the region, which an extrusion turns into side faces
BorderEdges(m, sel, f) ==
    LET n == Len(m.faces[f])
        edge(j) == << m.faces[f][j], m.faces[f][(j % n) + 1] >>
    IN  SelectSeq([j \in 1..n |-> edge(j)],
                  LAMBDA e : \A g \in sel \ {f} : ~HasEdge(m, g, e[1], e[2]))

RECURSIVE RegionBorder(_, _, _)
RegionBorder(m, sel, faces) ==
    IF faces = << >> THEN << >>
    ELSE BorderEdges(m, sel, Head(faces)) \o RegionBorder(m, sel, Tail(faces))

\* bmesh.ops.extrude_face_region(geom = the faces sel): the region is duplicated
\* and a side face joins each border edge to its copy.  The original faces are
\* deleted only when the region adjoins a face outside it; otherwise they stay,
\* with their loops reversed.  Returns the mesh and the new geometry ('geom').
ExtrudeFaceRegion(m, sel) ==
    LET selSeq == SetToSortedSeq(sel)
        oldV == SetToSortedSeq(FaceVerts(m, sel))
        nV == Len(m.verts)
        copyOf(v) == nV + (CHOOSE k \in 1..Len(oldV) : oldV[k] = v)
        border == RegionBorder(m, sel, selSeq)
        delorig == \E f \in sel, g \in AllFaces(m) \ sel :
                       \E j \in 1..Len(m.faces[f]) :
                           HasEdge(m, g, m.faces[f][j],
                                   m.faces[f][(j % Len(m.faces[f])) + 1])
        copies == [k \in 1..Len(selSeq) |->
                     [j \in 1..Len(m.faces[selSeq[k]]) |-> copyOf(m.faces[selSeq[k]][j])]]
        sides == [k \in 1..Len(border) |->
                     << border[k][1], border[k][2],
                        copyOf(border[k][2]), copyOf(border[k][1]) >>]
        kept == [f \in AllFaces(m) |->
                     IF f \in sel THEN Reverse(m.faces[f]) ELSE m.faces[f]]
        full == [verts |-> m.verts \o [k \in 1..Len(oldV) |-> m.verts[oldV[k]]],
                 faces |-> kept \o copies \o sides]
        nNew == Len(copies) + Len(sides)
        cut == DeleteFaces(full, sel)
    IN  IF delorig
        THEN [mesh |-> cut,
              verts |-> (Len(cut.verts) - Len(oldV) + 1)..Len(cut.verts),
              faces |-> (Len(cut.faces) - nNew + 1)..Len(cut.faces)]
        ELSE [mesh |-> full,
              verts |-> (nV + 1)..(nV + Len(oldV)),
              faces |-> (Len(m.faces) + 1)..(Len(m.faces) + nNew)]

\* bpy.ops.mesh.extrude_region_move: extrudes the selected region, leaves only
\* the new geometry selected and translates it.  Returns the mesh and selection.
ExtrudeRegionMove(m, sel, t) ==
    LET e == ExtrudeFaceRegion(m, sel)
    IN  [mesh |-> TranslateVerts(e.mesh, e.verts, t), sel |-> e.faces]

(* ---------------------------------------------------------------------- *)
(* Geometry builders                                                        *)
(* ---------------------------------------------------------------------- *)
\* geometry/shelf.py create_main_shelf; the created object has id w.next_id
create_main_shelf(w, name, width, height, depth) ==
    LET id == w.next_id
        w1 == LinkNewObject(w, name, "MESH", ScaleMesh(UnitCube, Vec(width, depth, height)))
    IN  SelectSet(SetActive(w1, id), id)

\* the hollowing steps of create_shelf_base, on the scaled cube
HollowShelf(m, thickness) ==
    LET m1 == InsetFaces(m, AllFaces(m), thickness)
        sel == SelectFaceBySides(m1, {}, 4)
        ex == ExtrudeRegionMove(m1, sel,
                  Vec(Zero, Zero, RNeg(RMul(thickness, RInt(2)))))
    IN  DeleteFaces(ex.mesh, ex.sel)

\* create_shelf_base scaling by (width, height, depth) instead of (width, depth, height)
create_shelf_base_AxesSwapped(w, width, height, depth, thickness) ==
    LET id == w.next_id
        w1 == Say(w, "Creating shelf base")
        w2 == OpsAdd(w1, "Cube", "MESH", UnitCube)
        w3 == Rename(w2, id, "ShelfBase")
        w4 == [w3 EXCEPT !.objects[id].data = ScaleMesh(@, Vec(width, height, depth))]
    IN  [w4 EXCEPT !.objects[id].data = HollowShelf(@, thickness), !.active = id]

\* gen_shelf.py create_shelf_base; the created object has id w.next_id
create_shelf_base(w, width, height, depth, thickness) ==
    LET id == w.next_id
        w1 == Say(w, "Creating shelf base")
        w2 == OpsAdd(w1, "Cube", "MESH", UnitCube)
        w3 == Rename(w2, id, "ShelfBase")
        w4 == [w3 EXCEPT !.objects[id].data = ScaleMesh(@, Vec(width, depth, height))]
    IN  [w4 EXCEPT !.objects[id].data = HollowShelf(@, thickness), !.active = id]

\* the mesh of create_bracket_support: the triangle (0,0,0), (length,0,0),
\* (0,0,-height), extruded as a face region, the new vertices moved by
\* thickness along Y
BracketSupportMesh(length, height, thickness) ==
    LET tri == [verts |-> << Vec(Zero, Zero, Zero), Vec(length, Zero, Zero),
                             Vec(Zero, Zero, RNeg(height)) >>,
                faces |-> << <<1, 2, 3>> >>]
        extruded == ExtrudeFaceRegion(tri, {1})
    IN  TranslateVerts(extruded.mesh, extruded.verts, Vec(Zero, thickness, Zero))

\* geometry/brackets.py create_bracket_support; the created object has id w.next_id
create_bracket_support(w, name, length, height, thickness) ==
    LET id == w.next_id
        w1 == LinkNewObject(w, name, "MESH", BracketSupportMesh(length, height, thickness))
    IN  SelectSet(SetActive(w1, id), id)

\* a variant whose hypotenuse face names the vertex after the last one
SupportBracketMesh_IndexPastEnd(width, height, depth) ==
    [verts |-> << Vec(Zero, Zero, Zero), Vec(width, Zero, Zero), Vec(width, Zero, height),
                  Vec(Zero, depth, Zero), Vec(width, depth, Zero), Vec(width, depth, height) >>,
     faces |-> << <<1, 2, 3>>, <<4, 6, 5>>, <<1, 4, 5, 2>>, <<2, 5, 6, 3>>, <<1, 3, 7, 4>> >>]

\* gen_shelf.py create_support_bracket: six vertices and five faces given
\* explicitly (0-based in the source, 1-based here)
SupportBracketMesh(width, height, depth) ==
    [verts |-> << Vec(Zero, Zero, Zero), Vec(width, Zero, Zero), Vec(width, Zero, height),
                  Vec(Zero, depth, Zero), Vec(width, depth, Zero), Vec(width, depth, height) >>,
     faces |-> << <<1, 2, 3>>, <<4, 6, 5>>, <<1, 4, 5, 2>>, <<2, 5, 6, 3>>, <<1, 3, 6, 4>> >>]

create_support_bracket(w, width, height, depth) ==
    LinkNewObject(Say(w, "Creating support bracket"), "SupportBracket", "MESH",
                  SupportBracketMesh(width, height, depth))

\* geometry/backing.py create_backing_plane
create_backing_plane(w, name, width, height, thickness) ==
    LinkNewObject(w, name, "MESH", ScaleMesh(UnitCube, Vec(width, thickness, height)))

\* gen_shelf.py create_backing_panel without the pegboard branch: a scaled cube
BackingPanelBox(w, width, height, thickness) ==
    LET id == w.next_id
        w1 == OpsAdd(Say(w, "Creating backing panel"), "Cube", "MESH", UnitCube)
        w2 == Rename(w1, id, "BackingPanel")
    IN  [w2 EXCEPT !.objects[id].data = ScaleMesh(@, Vec(width, thickness, height))]

\* the hole cutter: primitive_cylinder_add(radius=0.01, depth=thickness*2), kept
\* by the vertices of its bounding box
CylinderMesh(radius, depth) ==
    ScaleMesh(UnitCube, Vec(RMul(radius, RInt(2)), RMul(radius, RInt(2)), depth))

\* a variant that does not remove the cutter after the boolean
create_backing_panel_KeepsCutter(w, width, height, thickness, pegboard) ==
    LET id == w.next_id
        w1 == BackingPanelBox(w, width, height, thickness)
        hole == w1.next_id
        w2 == Rename(OpsAdd(w1, "Cylinder", "MESH",
                            CylinderMesh(Hundredths(1), RMul(thickness, RInt(2)))),
                     hole, "PegboardHole")
        w3 == [w2 EXCEPT !.objects[hole].location =
                  Vec(RAdd(RNeg(RDiv(width, RInt(2))), Tenths(1)), Zero,
                      RAdd(RNeg(RDiv(height, RInt(2))), Tenths(1))),
                         !.booleans = Append(@, [target |-> id, cutter |-> hole,
                                                 operation |-> "DIFFERENCE"]),
                         !.active = id]
    IN  IF pegboard THEN w3 ELSE w1

\* gen_shelf.py create_backing_panel; the panel has id w.next_id.  With pegboard
\* set a cutter object is added, used by one boolean difference on the panel
\* (recorded in w.booleans) and removed.
create_backing_panel(w, width, height, thickness, pegboard) ==
    LET id == w.next_id
        w1 == BackingPanelBox(w, width, height, thickness)
        hole == w1.next_id
        w2 == Rename(OpsAdd(w1, "Cylinder", "MESH",
                            CylinderMesh(Hundredths(1), RMul(thickness, RInt(2)))),
                     hole, "PegboardHole")
        w3 == [w2 EXCEPT !.objects[hole].location =
                  Vec(RAdd(RNeg(RDiv(width, RInt(2))), Tenths(1)), Zero,
                      RAdd(RNeg(RDiv(height, RInt(2))), Tenths(1))),
                         !.booleans = Append(@, [target |-> id, cutter |-> hole,
                                                 operation |-> "DIFFERENCE"]),
                         !.active = id]
        w4 == [w3 EXCEPT !.objects = [i \in Ids(w3) \ {hole} |-> w3.objects[i]]]
    IN  IF pegboard THEN w4 ELSE w1

\* geometry/crown.py create_crown_topper: a UV sphere of radius 1 scaled by
\* (width, depth, height); the mesh is kept by its six axis-extreme vertices
\* (the two poles and four equator vertices of the 16 x 8 sphere)
CrownTopperMesh(width, height, depth) ==
    ScaleMesh([verts |-> << Vec(RInt(1), Zero, Zero), Vec(RInt(-1), Zero, Zero),
                            Vec(Zero, RInt(1), Zero), Vec(Zero, RInt(-1), Zero),
                            Vec(Zero, Zero, RInt(1)), Vec(Zero, Zero, RInt(-1)) >>,
               faces |-> << <<1, 3, 5>>, <<3, 2, 5>>, <<2, 4, 5>>, <<4, 1, 5>>,
                            <<3, 1, 6>>, <<2, 3, 6>>, <<4, 2, 6>>, <<1, 4, 6>> >>],
              Vec(width, depth, height))

create_crown_topper(w, name, width, height, depth) ==
    LinkNewObject(w, name, "MESH", CrownTopperMesh(width, height, depth))

\* gen_shelf.py create_crown_molding: a cylinder of the given radius and of
\* depth = width, turned a quarter about Y so that its axis runs along X; the
\* mesh is kept by the vertices of its bounding box
create_crown_molding(w, width, radius, segments) ==
    LET id == w.next_id
        w1 == OpsAdd(Say(w, "Creating crown molding"), "Cylinder", "MESH",
                     ScaleMesh(UnitCube, Vec(width, RMul(radius, RInt(2)), RMul(radius, RInt(2)))))
    IN  Rename(w1, id, "CrownMolding")

(* ---------------------------------------------------------------------- *)
(* Layout                                                                   *)
(* ---------------------------------------------------------------------- *)
\* a variant that divides by bracket_count instead of bracket_count - 1
BracketXPos_OffByOne(i, bracket_count, shelf_width) ==
    IF bracket_count = 1 THEN Zero
    ELSE RMul(RSub(R(i, bracket_count), Half), RMul(shelf_width, R(8, 10)))

\* brackets.py lines 86-89: offset of bracket i (0-based) of bracket_count
BracketXPos(i, bracket_count, shelf_width) ==
    IF bracket_count = 1 THEN Zero
    ELSE RMul(RSub(R(i, bracket_count - 1), Half), RMul(shelf_width, R(8, 10)))

\* brackets.py lines 84-110: one turn of the loop of position_brackets_on_shelf
PlaceBracket(w, shelf, i, bracket_count) ==
    LET id == w.next_id
        dim == Dimensions(shelf)
        bracket_height == RMin(RMul(dim.y, R(8, 10)), RMul(dim.z, RInt(3)))
        bracket_length == RMul(bracket_height, RInt(2))
        w1 == create_bracket_support(w, "Bracket_" \o ToString(i + 1),
                                     bracket_length, bracket_height, Tenths(1))
    IN  Stage([w1 EXCEPT !.objects[id].location =
                       Vec(RAdd(shelf.location.x, BracketXPos(i, bracket_count, dim.x)),
                           RAdd(RSub(shelf.location.y, RMul(dim.y, Half)), Hundredths(3)),
                           RSub(shelf.location.z, RMul(dim.z, Half))),
                   !.objects[id].rotation = Vec(Zero, Zero, R(15555, 10000))],
              "position", id)

RECURSIVE PlaceBrackets(_, _, _, _)
PlaceBrackets(w, shelf, i, bracket_count) ==
    IF i >= bracket_count THEN w
    ELSE PlaceBrackets(PlaceBracket(w, shelf, i, bracket_count), shelf, i + 1, bracket_count)

\* geometry/brackets.py position_brackets_on_shelf: the world after the call
position_brackets_on_shelf(w, shelf_id, bracket_count) ==
    PlaceBrackets(w, w.objects[shelf_id], 0, bracket_count)

\* the list it returns: the ids of the brackets, in creation order
BracketsReturned(w, bracket_count) ==
    [k \in 1..(IF bracket_count > 0 THEN bracket_count ELSE 0) |-> w.next_id + k - 1]

\* a variant that leaves out the clearance offset
position_backing_behind_shelf_NoOffset(w, backing_id, shelf_id, offset) ==
    LET shelf == w.objects[shelf_id]
    IN  Stage([w EXCEPT !.objects[backing_id].location =
            Vec(shelf.location.x,
                RSub(shelf.location.y, RDiv(Dimensions(shelf).y, RInt(2))),
                shelf.location.z)], "position", backing_id)

\* geometry/backing.py position_backing_behind_shelf
position_backing_behind_shelf(w, backing_id, shelf_id, offset) ==
    LET shelf == w.objects[shelf_id]
    IN  Stage([w EXCEPT !.objects[backing_id].location =
            Vec(shelf.location.x,
                RSub(RSub(shelf.location.y, RDiv(Dimensions(shelf).y, RInt(2))), offset),
                shelf.location.z)], "position", backing_id)

\* a variant that adds the whole backing height instead of half of it
position_crown_above_backing_FullHeight(w, crown_id, backing_id, height_offset) ==
    LET backing == w.objects[backing_id]
    IN  Stage([w EXCEPT !.objects[crown_id].location =
            Vec(backing.location.x, backing.location.y,
                RAdd(RAdd(backing.location.z, Dimensions(backing).z), height_offset))],
              "position", crown_id)

\* geometry/crown.py position_crown_above_backing
position_crown_above_backing(w, crown_id, backing_id, height_offset) ==
    LET backing == w.objects[backing_id]
    IN  Stage([w EXCEPT !.objects[crown_id].location =
            Vec(backing.location.x, backing.location.y,
                RAdd(RAdd(backing.location.z, RDiv(Dimensions(backing).z, RInt(2))),
                     height_offset))], "position", crown_id)

\* gen_shelf.py position_components, lines 248-252: the brackets alternate
\* between +40% and -40% of the shelf width
RECURSIVE PlaceAlternating(_, _, _, _, _)
PlaceAlternating(w, brackets, k, shelf_width, shelf_height) ==
    IF k > Len(brackets) THEN w
    ELSE LET bracket_spacing == RMul(shelf_width, R(4, 10))
             x_pos == IF (k - 1) % 2 = 0 THEN bracket_spacing ELSE RNeg(bracket_spacing)
         IN  PlaceAlternating(
                 Stage([w EXCEPT !.objects[brackets[k]].location =
                          Vec(x_pos, Zero, RSub(RNeg(RDiv(shelf_height, RInt(2))), Tenths(1)))],
                       "position", brackets[k]),
                 brackets, k + 1, shelf_width, shelf_height)

\* a variant that puts the backing before the shelf's front face
position_components_Front(w, shelf, brackets, backing, crown, shelf_width, shelf_height, shelf_depth) ==
    LET w1 == Stage([Say(w, "Positioning shelf components") EXCEPT !.objects[backing].location =
                        Vec(Zero, RAdd(RDiv(shelf_depth, RInt(2)), Hundredths(1)),
                            RDiv(shelf_height, RInt(2)))], "position", backing)
        w2 == PlaceAlternating(w1, brackets, 1, shelf_width, shelf_height)
    IN  Stage([w2 EXCEPT !.objects[crown].location =
                  Vec(Zero, Zero, RAdd(RDiv(shelf_height, RInt(2)), Hundredths(8)))],
              "position", crown)

\* gen_shelf.py position_components
position_components(w, shelf, brackets, backing, crown, shelf_width, shelf_height, shelf_depth) ==
    LET w1 == Stage([Say(w, "Positioning shelf components") EXCEPT !.objects[backing].location =
                        Vec(Zero, RSub(RNeg(RDiv(shelf_depth, RInt(2))), Hundredths(1)),
                            RDiv(shelf_height, RInt(2)))], "position", backing)
        w2 == PlaceAlternating(w1, brackets, 1, shelf_width, shelf_height)
    IN  Stage([w2 EXCEPT !.objects[crown].location =
                  Vec(Zero, Zero, RAdd(RDiv(shelf_height, RInt(2)), Hundredths(8)))],
              "position", crown)

(* ---------------------------------------------------------------------- *)
(* Export                                                                   *)
(* ---------------------------------------------------------------------- *)
\* the format strings a caller may pass
FormatStrings == {"FBX", "fbx", "OBJ", "obj", "PLY", "ply", "GLTF", "gltf", "STL", ""}

\* str.upper() and str.lower() on those strings
Upper(s) ==
    CASE s \in {"FBX", "fbx"} -> "FBX"
      [] s \in {"OBJ", "obj"} -> "OBJ"
      [] s \in {"PLY", "ply"} -> "PLY"
      [] s \in {"GLTF", "gltf"} -> "GLTF"
      [] OTHER -> s
Lower(s) ==
    CASE s \in {"FBX", "fbx"} -> "fbx"
      [] s \in {"OBJ", "obj"} -> "obj"
      [] s \in {"PLY", "ply"} -> "ply"
      [] s \in {"GLTF", "gltf"} -> "gltf"
      [] s = "STL" -> "stl"
      [] OTHER -> s

\* os.path.join(directory, name)
PathJoin(dir, name) == dir \o "/" \o name

NoException == "none"

\* one call of a host exporter bpy.ops.export_*.<op>(filepath, use_selection=True):
\* the call is recorded; it writes the selected objects to the file, or raises
HostExport(w, op, filepath, host_ok) ==
    LET w1 == [w EXCEPT !.calls = Append(@, [op |-> op, filepath |-> filepath,
                                             objects |-> Selected(w)])]
    IN  IF host_ok
        THEN [w1 EXCEPT !.files = (filepath :> [kind |-> "mesh", format |-> op,
                                                objects |-> Selected(w)]) @@ @]
        ELSE [w1 EXCEPT !.raised = "RuntimeError"]

RECURSIVE SelectEach(_, _, _)
SelectEach(w, objects, k) ==
    IF k > Len(objects) THEN w
    ELSE SelectEach(SelectSet(w, objects[k]), objects, k + 1)

\* utils/scene_utils.py export_shelf_assembly
export_shelf_assembly(w, objects, filepath, file_format, host_ok) ==
    LET w1 == SelectEach(DeselectAll(Stage(w, "export", 0)), objects, 1)
    IN  CASE Upper(file_format) = "FBX" -> HostExport(w1, "fbx", filepath, host_ok)
          [] Upper(file_format) = "OBJ" -> HostExport(w1, "obj", filepath, host_ok)
          [] Upper(file_format) = "GLTF" -> HostExport(w1, "gltf", filepath, host_ok)
          [] OTHER -> [w1 EXCEPT !.raised = "ValueError"]

\* os.makedirs(path, exist_ok=True)
MakeDirs(w, path, fs_ok) ==
    IF fs_ok THEN [w EXCEPT !.dirs = @ \cup {path}]
    ELSE [w EXCEPT !.raised = "OSError"]

\* gen_shelf.py export_shelf
export_shelf(w, export_path, export_format, fs_ok, host_ok) ==
    LET w1 == MakeDirs(Say(Stage(w, "export", 0), "Exporting shelf"), export_path, fs_ok)
        w2 == SelectAll(w1)
        filepath == PathJoin(export_path, "blockbuster_shelf." \o Lower(export_format))
        w3 == CASE Upper(export_format) = "FBX" -> HostExport(w2, "fbx", filepath, host_ok)
                [] Upper(export_format) = "OBJ" -> HostExport(w2, "obj", filepath, host_ok)
                [] Upper(export_format) = "PLY" -> HostExport(w2, "ply", filepath, host_ok)
                [] OTHER -> w2
    IN  IF w1.raised # NoException THEN w1
        ELSE IF w3.raised # NoException THEN w3
        ELSE Say(w3, "Shelf exported to")

\* a variant that prints the message without writing the file
save_generation_info_NoWrite(w, export_path, kwargs) ==
    IF export_path \notin w.dirs THEN [w EXCEPT !.raised = "FileNotFoundError"]
    ELSE Say(w, "Generation info saved")

\* gen_shelf.py save_generation_info: writes shelf_info.json into export_path
save_generation_info(w, export_path, kwargs) ==
    LET info == [description |-> "Procedurally generated Blockbuster-style video store shelf",
                 generator |-> "Blender Python Script",
                 timestamp |-> w.frame_current,
                 parameters |-> kwargs,
                 components |-> << "ShelfBase", "SupportBrackets", "BackingPanel", "CrownMolding" >>]
        info_path == PathJoin(export_path, "shelf_info.json")
    IN  IF export_path \notin w.dirs THEN [w EXCEPT !.raised = "FileNotFoundError"]
        ELSE Say([w EXCEPT !.files = (info_path :> [kind |-> "json", content |-> info]) @@ @],
                 "Generation info saved")

\* the state of the host before a script starts: no objects, nothing printed
EmptyWorld ==
    [objects |-> << >>, next_id |-> 1, active |-> 0, frame_current |-> 1,
     unit_system |-> "NONE",
     materials |-> << >>, booleans |-> << >>, collections |-> {MasterCollection},
     dirs |-> {}, files |-> << >>, out |-> << >>, calls |-> << >>,
     stages |-> << >>, mode |-> "OBJECT", raised |-> NoException]

(* ---------------------------------------------------------------------- *)
(* Materials                                                                *)
(* ---------------------------------------------------------------------- *)
Color(r, g, b) == << Hundredths(r), Hundredths(g), Hundredths(b), RInt(1) >>

\* bpy.data.materials.new(name) with use_nodes = True: the default Principled
\* BSDF values; the new material is w.materials[Len(w.materials) + 1]
NewMaterial(w, name) ==
    [w EXCEPT !.materials = Append(@, [name |-> name, base_color |-> Color(80, 80, 80),
                                       roughness |-> Half, metallic |-> Zero,
                                       specular |-> Half])]

\* "if obj.data.materials: obj.data.materials[0] = mat else: append(mat)"
AssignFirstSlot(w, id, mat) ==
    Stage(IF Len(w.objects[id].materials) > 0
          THEN [w EXCEPT !.objects[id].materials[1] = mat]
          ELSE [w EXCEPT !.objects[id].materials = Append(@, mat)],
          "material", id)

\* obj.data.materials.append(mat)
AppendMaterial(w, id, mat) ==
    Stage([w EXCEPT !.objects[id].materials = Append(@, mat)], "material", id)

\* add_shelf_material, add_backing_material, add_crown_material: a new material
\* "<object name>_Material" with the color and roughness (and metallic), put
\* into the object's first slot
AddSlotMaterial(w, id, color, roughness, metallic) ==
    LET mat == Len(w.materials) + 1
        w1 == NewMaterial(w, w.objects[id].name \o "_Material")
    IN  AssignFirstSlot([w1 EXCEPT !.materials[mat].base_color = color,
                                   !.materials[mat].roughness = roughness,
                                   !.materials[mat].metallic = metallic], id, mat)

add_shelf_material(w, id, color) == AddSlotMaterial(w, id, color, Tenths(7), Zero)
add_backing_material(w, id, color) == AddSlotMaterial(w, id, color, Tenths(8), Zero)
add_crown_material(w, id, color) == AddSlotMaterial(w, id, color, Tenths(6), Tenths(1))

\* geometry/brackets.py add_bracket_material: the material is appended
add_bracket_material(w, id, color) ==
    LET mat == Len(w.materials) + 1
        w1 == NewMaterial(w, w.objects[id].name \o "_Material")
    IN  AppendMaterial([w1 EXCEPT !.materials[mat].base_color = color,
                                  !.materials[mat].roughness = Tenths(3),
                                  !.materials[mat].specular = Tenths(1)], id, mat)

\* gen_shelf.py setup_materials: creates Wood and Metal; they are the materials
\* Len(w.materials) + 1 and Len(w.materials) + 2
setup_materials(w) ==
    LET wood == Len(w.materials) + 1
        metal == wood + 1
        w1 == NewMaterial(NewMaterial(Say(w, "Setting up materials"), "Wood"), "Metal")
    IN  [w1 EXCEPT !.materials[wood].base_color = Color(60, 40, 20),
                   !.materials[wood].roughness = Tenths(3),
                   !.materials[metal].base_color = Color(70, 70, 70),
                   !.materials[metal].metallic = RInt(1),
                   !.materials[metal].roughness = Tenths(1)]

(* ---------------------------------------------------------------------- *)
(* Scene utilities                                                          *)
(* ---------------------------------------------------------------------- *)
\* a variant that deletes the selection without selecting all objects first
clear_scene_NoSelectAll(w) == DeleteSelected(w)

\* clear_scene of both scripts: select all, delete the selection (gen_shelf.py
\* also removes the mesh datablocks left behind, which no object uses any more)
clear_scene(w) == DeleteSelected(SelectAll(w))

\* utils/scene_utils.py setup_scene: clear, metric units, a camera and a sun
setup_scene(w) ==
    LET w1 == [clear_scene(w) EXCEPT !.unit_system = "METRIC"]
        cam == w1.next_id
        w2 == OpsAdd(w1, "Camera", "CAMERA", EmptyMesh)
        w3 == [w2 EXCEPT !.objects[cam].location = Vec(RInt(3), RInt(-3), RInt(2)),
                         !.objects[cam].rotation = Vec(R(11, 10), Zero, R(785, 1000))]
        sun == w3.next_id
        w4 == OpsAdd(w3, "Sun", "LIGHT", EmptyMesh)
    IN  [w4 EXCEPT !.objects[sun].location = Vec(RInt(2), RInt(2), RInt(5))]

(* ---------------------------------------------------------------------- *)
(* geometry/backing.py create_pegboard_holes                                *)
(* ---------------------------------------------------------------------- *)
\* bpy.ops.object.mode_set(mode=...)
ModeSet(w, mode) == [w EXCEPT !.mode = mode]

\* int(a) of a float: truncation towards zero
RTrunc(a) == IF a[1] >= 0 THEN a[1] \div a[2] ELSE -((-a[1]) \div a[2])

\* one pass of the loop body (lines 81-87): the position of hole (i, j) is
\* computed and nothing is done with it; bm is left as it was
PegboardHoleBody(bm, i, j, holes_x, holes_z, width, height) ==
    LET x == RMul(RMul(RSub(R(i, holes_x), Half), width), Tenths(9))
        z == RMul(RMul(RSub(R(j, holes_z), Half), height), Tenths(9))
    IN  [bm |-> bm, hole |-> [x |-> x, z |-> z]]

\* the inner loop of lines 80-87, from j on: the mesh it leaves and the holes
\* whose position the body computed, in order
RECURSIVE PegboardHoleRow(_, _, _, _, _, _, _, _)
PegboardHoleRow(bm, i, j, holes_x, holes_z, width, height, visited) ==
    IF j >= holes_z THEN [bm |-> bm, visited |-> visited]
    ELSE LET b == PegboardHoleBody(bm, i, j, holes_x, holes_z, width, height)
         IN  PegboardHoleRow(b.bm, i, j + 1, holes_x, holes_z, width, height,
                             Append(visited, b.hole))

\* the outer loop of lines 79-87, from i on
RECURSIVE PegboardHoleLoop(_, _, _, _, _, _, _)
PegboardHoleLoop(bm, i, holes_x, holes_z, width, height, visited) ==
    IF i >= holes_x THEN [bm |-> bm, visited |-> visited]
    ELSE LET row == PegboardHoleRow(bm, i, 0, holes_x, holes_z, width, height, visited)
         IN  PegboardHoleLoop(row.bm, i + 1, holes_x, holes_z, width, height,
                              row.visited)

PegboardHoles(w, backing, hole_spacing) ==
    LET width == Dimensions(w.objects[backing]).x
        height == Dimensions(w.objects[backing]).z
        holes_x == RTrunc(RDiv(width, hole_spacing))
        holes_z == RTrunc(RDiv(height, hole_spacing))
    IN  PegboardHoleLoop(w.objects[backing].data, 0, holes_x, holes_z,
                         width, height, << >>)

create_pegboard_holes_StaysInEdit(w, backing, hole_spacing, hole_diameter) ==
    LET w1 == ModeSet(SelectSet(SetActive(w, backing), backing), "EDIT")
    IN  [w1 EXCEPT !.objects[backing].data = PegboardHoles(w, backing, hole_spacing).bm]

create_pegboard_holes(w, backing, hole_spacing, hole_diameter) ==
    LET w1 == ModeSet(SelectSet(SetActive(w, backing), backing), "EDIT")
        w2 == [w1 EXCEPT !.objects[backing].data =
                             PegboardHoles(w, backing, hole_spacing).bm]
    IN  ModeSet(w2, "OBJECT")

\* utils/scene_utils.py create_collection
create_collection(w, name) == [w EXCEPT !.collections = @ \cup {name}]

\* coll.objects.unlink(obj) and coll.objects.link(obj)
CollectionUnlink_Keeps(w, coll, id) == w
CollectionUnlink(w, coll, id) == [w EXCEPT !.objects[id].users_collection = @ \ {coll}]
CollectionLink(w, coll, id) == [w EXCEPT !.objects[id].users_collection = @ \cup {coll}]

\* lines 106-108: obj.users_collection is read once, and obj is unlinked from
\* each collection of it in turn
RECURSIVE UnlinkFromAll(_, _, _)
UnlinkFromAll(w, id, colls) ==
    IF colls = {} THEN w
    ELSE LET coll == CHOOSE c \in colls : TRUE
         IN  UnlinkFromAll(CollectionUnlink(w, coll, id), id, colls \ {coll})

\* utils/scene_utils.py move_objects_to_collection, from objects[k] on: each
\* object is unlinked from every collection that uses it and linked to the target
RECURSIVE move_objects_to_collection(_, _, _, _)
move_objects_to_collection(w, objects, k, collection) ==
    IF k > Len(objects) THEN w
    ELSE LET id == objects[k]
             w1 == UnlinkFromAll(w, id, w.objects[id].users_collection)
         IN  move_objects_to_collection(CollectionLink(w1, collection, id),
                                        objects, k + 1, collection)

\* the scene of the host's startup file: a cube with the material "Material",
\* a camera and a light
StartupWorld ==
    LET w1 == OpsAdd(NewMaterial(EmptyWorld, "Material"), "Cube", "MESH",
                     ScaleMesh(UnitCube, Vec(RInt(2), RInt(2), RInt(2))))
        w2 == OpsAdd(w1, "Camera", "CAMERA", EmptyMesh)
    IN  [OpsAdd(w2, "Light", "LIGHT", EmptyMesh) EXCEPT !.objects[1].materials = << 1 >>,
                                                        !.stages = << >>]

\* a scene left by earlier work: the startup objects, a shelf of an earlier
\* run (selected) and a hidden camera
UsedWorld ==
    LET w1 == create_main_shelf(StartupWorld, "MainShelf", RInt(2), Tenths(1), Tenths(6))
        hidden == w1.next_id
        w2 == LinkNewObject(w1, "Hidden", "CAMERA", EmptyMesh)
    IN  [w2 EXCEPT !.objects[hidden].hide = TRUE, !.stages = << >>]

\* the scenes a script is started in
InitialScenes == {StartupWorld, UsedWorld}

(* ---------------------------------------------------------------------- *)
(* State                                                                    *)
(* ---------------------------------------------------------------------- *)
VARIABLES
    call,   \* the library call made last: its name, its arguments, what it returned
    tw,     \* the host after that call
    mono,   \* the run of gen_shelf.py: position, parsed arguments, handles, host
    modu    \* the run of gen_shelf_modular.py: position, handles, host

vars == << call, tw, mono, modu >>

(* ---------------------------------------------------------------------- *)
(* Input sets                                                               *)
(* ---------------------------------------------------------------------- *)
Lengths == {Tenths(k) : k \in 1..MaxTenths} \cup {RInt(2)}
Heights == {Tenths(1), Tenths(3)}
Depths == {Tenths(4), Tenths(6)}
Locations == {Origin, Vec(RInt(1), Half, R(-1, 4))}
Offsets == {Zero, Hundredths(1), Tenths(1)}
Counts == 0..MaxBrackets
ExportDirs == {"/app/output", "/tmp/out"}

\* a shelf as the callers of the layout functions hold it: built by
\* create_main_shelf (id 1) and moved to loc
ShelfFixture(width, height, depth, loc) ==
    LET w == create_main_shelf(EmptyWorld, "MainShelf", width, height, depth)
    IN  [w EXCEPT !.objects[1].location = loc]

(* ---------------------------------------------------------------------- *)
(* Library calls: a run of this part makes one call, on a fresh host       *)
(* ---------------------------------------------------------------------- *)
CallCreateMainShelf ==
    /\ call.op = "none"
    /\ \E width \in Lengths, height \in Heights, depth \in Depths :
        /\ tw' = create_main_shelf(EmptyWorld, "MainShelf", width, height, depth)
        /\ call' = [op |-> "create_main_shelf", width |-> width, height |-> height,
                    depth |-> depth, ret |-> 1]
        /\ UNCHANGED << mono, modu >>

CallCreateShelfBase ==
    /\ call.op = "none"
    /\ \E width \in Lengths, height \in Heights, depth \in Depths :
        /\ tw' = create_shelf_base(EmptyWorld, width, height, depth, Hundredths(5))
        /\ call' = [op |-> "create_shelf_base", width |-> width, height |-> height,
                    depth |-> depth, ret |-> 1]
        /\ UNCHANGED << mono, modu >>

\* the dimensions a bracket is asked with: the lengths, and a degenerate zero
BracketDims == Lengths \cup {Zero}

CallCreateSupportBracket ==
    /\ call.op = "none"
    /\ \E width \in BracketDims, height \in BracketDims, depth \in BracketDims :
        /\ tw' = create_support_bracket(EmptyWorld, width, height, depth)
        /\ call' = [op |-> "create_support_bracket", width |-> width, height |-> height,
                    depth |-> depth, ret |-> 1]
        /\ UNCHANGED << mono, modu >>

CallCreateBackingPanel ==
    /\ call.op = "none"
    /\ \E width \in Lengths, height \in Lengths, pegboard \in BOOLEAN :
        /\ tw' = create_backing_panel(EmptyWorld, width, height, Hundredths(2), pegboard)
        /\ call' = [op |-> "create_backing_panel", width |-> width, height |-> height,
                    pegboard |-> pegboard, ret |-> 1]
        /\ UNCHANGED << mono, modu >>

CallPositionBrackets ==
    /\ call.op = "none"
    /\ \E width \in Lengths, height \in Heights, depth \in Depths,
       loc \in Locations, n \in Counts :
        LET w == ShelfFixture(width, height, depth, loc)
        IN  /\ tw' = position_brackets_on_shelf(w, 1, n)
            /\ call' = [op |-> "position_brackets_on_shelf", shelf |-> 1,
                        bracket_count |-> n, ret |-> BracketsReturned(w, n)]
            /\ UNCHANGED << mono, modu >>

CallPositionBacking ==
    /\ call.op = "none"
    /\ \E width \in Lengths, height \in Heights, depth \in Depths,
       loc \in Locations, offset \in Offsets :
        LET w == create_backing_plane(ShelfFixture(width, height, depth, loc),
                                      "Backing", R(22, 10), R(3, 2), Hundredths(2))
        IN  /\ tw' = position_backing_behind_shelf(w, 2, 1, offset)
            /\ call' = [op |-> "position_backing_behind_shelf", backing |-> 2,
                        shelf |-> 1, offset |-> offset]
            /\ UNCHANGED << mono, modu >>

CallPositionCrown ==
    /\ call.op = "none"
    /\ \E bheight \in Lengths, loc \in Locations, offset \in Offsets :
        LET w0 == create_backing_plane(EmptyWorld, "Backing", R(22, 10), bheight, Hundredths(2))
            w1 == [w0 EXCEPT !.objects[1].location = loc]
            w == create_crown_topper(w1, "Crown", R(22, 10), R(15, 100), Tenths(1))
        IN  /\ tw' = position_crown_above_backing(w, 2, 1, offset)
            /\ call' = [op |-> "position_crown_above_backing", crown |-> 2,
                        backing |-> 1, height_offset |-> offset]
            /\ UNCHANGED << mono, modu >>

\* the components as gen_shelf.py main builds them (lines 390-406): a shelf
\* (id 1), four brackets (ids 2-5), a backing panel (id 6), a crown (id 7)
RECURSIVE MonoBrackets(_, _)
MonoBrackets(w, n) ==
    IF n = 0 THEN w
    ELSE MonoBrackets(create_support_bracket(w, R(15, 100), Tenths(2), Tenths(3)), n - 1)

CallPositionComponents ==
    /\ call.op = "none"
    /\ \E width \in Lengths, height \in Heights, depth \in Depths, bheight \in Lengths :
        LET w1 == create_shelf_base(EmptyWorld, width, height, depth, Hundredths(5))
            w2 == MonoBrackets(w1, 4)
            w3 == create_backing_panel(w2, width, bheight, Hundredths(2), FALSE)
            w4 == create_crown_molding(w3, width, Hundredths(8), 16)
        IN  /\ tw' = position_components(w4, 1, << 2, 3, 4, 5 >>, 6, 7, width, height, depth)
            /\ call' = [op |-> "position_components", shelf |-> 1,
                        brackets |-> << 2, 3, 4, 5 >>, backing |-> 6, crown |-> 7,
                        shelf_width |-> width, shelf_height |-> height,
                        shelf_depth |-> depth]
            /\ UNCHANGED << mono, modu >>

\* the backing planes create_pegboard_holes is given: built by
\* create_backing_plane (id 1), with a material and moved behind a shelf
HoleSpacings == {Tenths(3), Half, RInt(1)}
HoleDiameters == {Hundredths(1), Tenths(1)}
BackingSizes == Lengths \cup {R(3, 2)}

PegboardFixture(width, height) ==
    LET w1 == create_backing_plane(EmptyWorld, "Backing", width, height, Hundredths(2))
        w2 == add_backing_material(w1, 1, Color(70, 65, 55))
    IN  [w2 EXCEPT !.objects[1].location = Vec(Zero, R(-21, 100), Zero)]

CallCreatePegboardHoles ==
    /\ call.op = "none"
    /\ \E width \in BackingSizes, height \in BackingSizes,
          hole_spacing \in HoleSpacings, hole_diameter \in HoleDiameters :
        LET w == PegboardFixture(width, height)
        IN  /\ tw' = create_pegboard_holes(w, 1, hole_spacing, hole_diameter)
            /\ call' = [op |-> "create_pegboard_holes", backing |-> 1,
                        hole_spacing |-> hole_spacing, hole_diameter |-> hole_diameter,
                        before |-> w.objects[1],
                        visited |-> PegboardHoles(w, 1, hole_spacing).visited]
            /\ UNCHANGED << mono, modu >>

\* the scenes move_objects_to_collection is called in: three objects, the
\* first two in any of the collections named, the third in two of them
TargetCollection == "ShelfAssembly"
OtherCollection == "Props"
Memberships == {{}, {MasterCollection}, {TargetCollection},
                {MasterCollection, OtherCollection},
                {MasterCollection, TargetCollection, OtherCollection}}
ObjectLists == {<< >>, << 1 >>, << 2 >>, << 1, 2 >>, << 2, 1 >>, << 1, 1 >>}

CollectionFixture(m1, m2) ==
    LET w1 == create_backing_plane(EmptyWorld, "Backing", R(22, 10), R(3, 2), Hundredths(2))
        w2 == create_crown_topper(w1, "Crown", R(22, 10), R(15, 100), Tenths(1))
        w3 == OpsAdd(w2, "Camera", "CAMERA", EmptyMesh)
        w4 == create_collection(create_collection(w3, OtherCollection), TargetCollection)
    IN  [w4 EXCEPT !.objects[1].users_collection = m1,
                   !.objects[2].users_collection = m2,
                   !.objects[3].users_collection = {MasterCollection, OtherCollection}]

CallMoveObjectsToCollection ==
    /\ call.op = "none"
    /\ \E m1 \in Memberships, m2 \in Memberships, objects \in ObjectLists :
        LET w == CollectionFixture(m1, m2)
        IN  /\ tw' = move_objects_to_collection(w, objects, 1, TargetCollection)
            /\ call' = [op |-> "move_objects_to_collection", objects |-> objects,
                        collection |-> TargetCollection,
                        before |-> [i \in 1..3 |-> w.objects[i].users_collection]]
            /\ UNCHANGED << mono, modu >>

CallExportShelfAssembly ==
    /\ call.op = "none"
    /\ \E fmt \in FormatStrings, dir \in ExportDirs, host_ok \in BOOLEAN :
        LET w == [ShelfFixture(RInt(2), Tenths(1), Tenths(6), Origin)
                     EXCEPT !.dirs = {dir}]
            filepath == PathJoin(dir, "blockbuster_shelf." \o Lower(fmt))
        IN  /\ tw' = export_shelf_assembly(w, << 1 >>, filepath, fmt, host_ok)
            /\ call' = [op |-> "export_shelf_assembly", objects |-> << 1 >>,
                        filepath |-> filepath, file_format |-> fmt]
            /\ UNCHANGED << mono, modu >>

CallExportShelf ==
    /\ call.op = "none"
    /\ \E fmt \in FormatStrings, dir \in ExportDirs, fs_ok \in BOOLEAN, host_ok \in BOOLEAN :
        LET w == ShelfFixture(RInt(2), Tenths(1), Tenths(6), Origin)
        IN  /\ tw' = export_shelf(w, dir, fmt, fs_ok, host_ok)
            /\ call' = [op |-> "export_shelf", export_path |-> dir, export_format |-> fmt]
            /\ UNCHANGED << mono, modu >>

(* ---------------------------------------------------------------------- *)
(* Material assignments: a run of this part applies up to MaxAssignments   *)
(* of them, in any order, to a shelf (id 1) and a bracket (id 2)           *)
(* ---------------------------------------------------------------------- *)
\* the objects and the materials Wood (1) and Metal (2) the assignments work on
MaterialFixture ==
    setup_materials(create_support_bracket(
        ShelfFixture(RInt(2), Tenths(1), Tenths(6), Origin),
        R(15, 100), Tenths(2), Tenths(3)))

MaterialTargets == {1, 2}
MaterialCallAllowed ==
    \/ call.op = "none"
    \/ call.op = "materials" /\ Len(call.applied) < MaxAssignments
MaterialBefore == IF call.op = "none" THEN MaterialFixture ELSE tw
MaterialApplied(fn, id) ==
    [op |-> "materials",
     applied |-> (IF call.op = "none" THEN << >> ELSE call.applied) \o << << fn, id >> >>]

CallAddShelfMaterial ==
    /\ MaterialCallAllowed
    /\ \E id \in MaterialTargets :
        /\ tw' = add_shelf_material(MaterialBefore, id, Color(80, 60, 40))
        /\ call' = MaterialApplied("add_shelf_material", id)
    /\ UNCHANGED << mono, modu >>

CallAddBackingMaterial ==
    /\ MaterialCallAllowed
    /\ \E id \in MaterialTargets :
        /\ tw' = add_backing_material(MaterialBefore, id, Color(70, 65, 55))
        /\ call' = MaterialApplied("add_backing_material", id)
    /\ UNCHANGED << mono, modu >>

CallAddCrownMaterial ==
    /\ MaterialCallAllowed
    /\ \E id \in MaterialTargets :
        /\ tw' = add_crown_material(MaterialBefore, id, Color(40, 40, 40))
        /\ call' = MaterialApplied("add_crown_material", id)
    /\ UNCHANGED << mono, modu >>

CallAddBracketMaterial ==
    /\ MaterialCallAllowed
    /\ \E id \in MaterialTargets :
        /\ tw' = add_bracket_material(MaterialBefore, id, Color(50, 50, 50))
        /\ call' = MaterialApplied("add_bracket_material", id)
    /\ UNCHANGED << mono, modu >>

\* gen_shelf.py lines 416-421: obj.data.materials.append(wood_mat or metal_mat)
CallAppendMaterial ==
    /\ MaterialCallAllowed
    /\ \E id \in MaterialTargets, mat \in {1, 2} :
        /\ tw' = AppendMaterial(MaterialBefore, id, mat)
        /\ call' = MaterialApplied("append", id)
    /\ UNCHANGED << mono, modu >>

Idle == [pc |-> "idle"]

Init ==
    /\ call = [op |-> "none"]
    /\ tw = EmptyWorld
    /\ mono = Idle
    /\ modu = Idle

Next ==
    \/ CallCreateMainShelf
    \/ CallCreateShelfBase
    \/ CallCreateSupportBracket
    \/ CallCreateBackingPanel
    \/ CallPositionBrackets
    \/ CallPositionBacking
    \/ CallPositionCrown
    \/ CallPositionComponents
    \/ CallExportShelfAssembly
    \/ CallExportShelf
    \/ CallAddShelfMaterial
    \/ CallAddBackingMaterial
    \/ CallAddCrownMaterial
    \/ CallAddBracketMaterial
    \/ CallAppendMaterial
    \/ CallCreatePegboardHoles
    \/ CallMoveObjectsToCollection

Spec == Init /\ [][Next]_vars

(* ---------------------------------------------------------------------- *)
(* gen_shelf.py: command line                                               *)
(* ---------------------------------------------------------------------- *)
Absent == "absent"

\* float(token) of the tokens the model passes; "abc" is no float
IsFloat(tok) == tok \in {"1", "2.0", "0.1", "0.6"}
ParseFloat(tok) ==
    CASE tok = "1" -> RInt(1)
      [] tok = "2.0" -> RInt(2)
      [] tok = "0.1" -> R(1, 10)
      [] tok = "0.6" -> R(6, 10)

\* the command lines: whether "--" is present, and for each option the token
\* given with it (Absent when the option is not given) or whether the flag is set
AllCommandLines ==
    [dashdash : BOOLEAN,
     width : {Absent, "1", "abc"},
     height : {Absent, "0.1"},
     depth : {Absent, "0.6"},
     backing_height : {Absent, "2.0"},
     pegboard : BOOLEAN,
     export_format : {Absent, "OBJ", "PLY", "GLTF"},
     export_path : {Absent, "/tmp/out"},
     no_materials : BOOLEAN]

OptionsGiven(cmd) ==
    Cardinality({o \in {"width", "height", "depth", "backing_height", "export_format",
                        "export_path"} : cmd[o] # Absent})
    + (IF cmd.pegboard THEN 1 ELSE 0) + (IF cmd.no_materials THEN 1 ELSE 0)

\* the command lines with at most MaxOptions options
CommandLines == {cmd \in AllCommandLines : OptionsGiven(cmd) <= MaxOptions}

\* parse_arguments, lines 369-372: without "--" the script parses no argument
ScriptArgv(cmd) ==
    IF cmd.dashdash THEN cmd
    ELSE [dashdash |-> FALSE, width |-> Absent, height |-> Absent, depth |-> Absent,
          backing_height |-> Absent, pegboard |-> FALSE, export_format |-> Absent,
          export_path |-> Absent, no_materials |-> FALSE]

FloatOption(tok, default) == IF tok = Absent THEN default ELSE ParseFloat(tok)

\* argparse rejects a token that is no float and a format outside the choices
ArgumentsValid(cmd) ==
    LET a == ScriptArgv(cmd)
    IN  /\ \A tok \in {a.width, a.height, a.depth, a.backing_height} :
              tok = Absent \/ IsFloat(tok)
        /\ a.export_format \in {Absent, "FBX", "OBJ", "PLY"}

\* gen_shelf.py parse_arguments: the namespace for a valid command line
parse_arguments(cmd) ==
    LET a == ScriptArgv(cmd)
    IN  [width |-> FloatOption(a.width, RInt(2)),
         height |-> FloatOption(a.height, R(3, 10)),
         depth |-> FloatOption(a.depth, R(4, 10)),
         backing_height |-> FloatOption(a.backing_height, R(3, 2)),
         pegboard |-> a.pegboard,
         export_format |-> IF a.export_format = Absent THEN "FBX" ELSE a.export_format,
         export_path |-> IF a.export_path = Absent THEN "/app/output" ELSE a.export_path,
         no_materials |-> a.no_materials]

\* a variant that passes the depth as height and the height as depth
GenerationParameters_Swapped(args) ==
    [width |-> args.width, height |-> args.depth, depth |-> args.height,
     backing_height |-> args.backing_height, pegboard |-> args.pegboard,
     export_format |-> args.export_format]

\* gen_shelf.py main, lines 427-435: the keyword arguments of save_generation_info
GenerationParameters(args) ==
    [width |-> args.width, height |-> args.height, depth |-> args.depth,
     backing_height |-> args.backing_height, pegboard |-> args.pegboard,
     export_format |-> args.export_format]

(* ---------------------------------------------------------------------- *)
(* gen_shelf.py: main, one action per statement group                       *)
(* ---------------------------------------------------------------------- *)
NoArgs == [width |-> Zero, height |-> Zero, depth |-> Zero, backing_height |-> Zero,
           pegboard |-> FALSE, export_format |-> "", export_path |-> "",
           no_materials |-> FALSE]

MonoStart(cmd, scene) ==
    [pc |-> "start", argv |-> cmd, args |-> NoArgs, w |-> scene,
     shelf |-> 0, brackets |-> << >>, backing |-> 0, crown |-> 0, exit |-> -1]

\* an exception that nothing catches ends the script with a traceback
MonoAfter(m, w, pc) ==
    IF w.raised # NoException THEN [m EXCEPT !.w = w, !.pc = "traceback"]
    ELSE [m EXCEPT !.w = w, !.pc = pc]

MonoParse ==
    /\ mono.pc = "start"
    /\ mono' = IF ArgumentsValid(mono.argv)
               THEN [mono EXCEPT !.pc = "parsed", !.args = parse_arguments(mono.argv),
                                 !.w = Say(Say(@, "=== Blender Blockbuster Shelf Generator ==="),
                                           "Generating shelf with dimensions")]
               ELSE [mono EXCEPT !.pc = "usage", !.exit = 2,
                                 !.w = Say(@, "=== Blender Blockbuster Shelf Generator ===")]
    /\ UNCHANGED << call, tw, modu >>

MonoClear ==
    /\ mono.pc = "parsed"
    /\ mono' = [mono EXCEPT !.pc = "cleared", !.w = clear_scene(@)]
    /\ UNCHANGED << call, tw, modu >>

MonoCreateShelf ==
    /\ mono.pc = "cleared"
    /\ mono' = [mono EXCEPT !.pc = "shelf", !.shelf = mono.w.next_id,
                            !.w = create_shelf_base(@, mono.args.width, mono.args.height,
                                                    mono.args.depth, Hundredths(5))]
    /\ UNCHANGED << call, tw, modu >>

\* lines 393-396: four brackets with the default dimensions
MonoCreateBrackets ==
    /\ mono.pc = "shelf"
    /\ mono' = [mono EXCEPT !.pc = "brackets",
                            !.brackets = [k \in 1..4 |-> mono.w.next_id + k - 1],
                            !.w = MonoBrackets(@, 4)]
    /\ UNCHANGED << call, tw, modu >>

MonoCreateBacking ==
    /\ mono.pc = "brackets"
    /\ mono' = [mono EXCEPT !.pc = "backing", !.backing = mono.w.next_id,
                            !.w = create_backing_panel(@, mono.args.width,
                                      mono.args.backing_height, Hundredths(2),
                                      mono.args.pegboard)]
    /\ UNCHANGED << call, tw, modu >>

MonoCreateCrown ==
    /\ mono.pc = "backing"
    /\ mono' = [mono EXCEPT !.pc = "crown", !.crown = mono.w.next_id,
                            !.w = create_crown_molding(@, mono.args.width, Hundredths(8), 16)]
    /\ UNCHANGED << call, tw, modu >>

MonoPosition ==
    /\ mono.pc = "crown"
    /\ mono' = [mono EXCEPT !.pc = "positioned",
                            !.w = position_components(@, mono.shelf, mono.brackets,
                                      mono.backing, mono.crown, mono.args.width,
                                      mono.args.height, mono.args.depth)]
    /\ UNCHANGED << call, tw, modu >>

RECURSIVE AppendToEach(_, _, _, _)
AppendToEach(w, objects, k, mat) ==
    IF k > Len(objects) THEN w
    ELSE AppendToEach(AppendMaterial(w, objects[k], mat), objects, k + 1, mat)

\* a variant that leaves out the loop over the brackets
MonoAssignMaterials_NoBrackets(m) ==
    LET wood == Len(m.w.materials) + 1
        w1 == setup_materials(m.w)
    IN  AppendMaterial(AppendMaterial(AppendMaterial(w1, m.shelf, wood),
                                      m.backing, wood), m.crown, wood)

\* lines 412-421: unless --no-materials, Wood on shelf, backing and crown and
\* Metal on the brackets
\* a variant that gives the brackets the wood material
MonoAssignMaterials_WoodBrackets(m) ==
    LET wood == Len(m.w.materials) + 1
        w1 == setup_materials(m.w)
        w2 == AppendMaterial(AppendMaterial(AppendMaterial(w1, m.shelf, wood),
                                            m.backing, wood), m.crown, wood)
    IN  AppendToEach(w2, m.brackets, 1, wood)

MonoAssignMaterials(m) ==
    LET wood == Len(m.w.materials) + 1
        metal == wood + 1
        w1 == setup_materials(m.w)
        w2 == AppendMaterial(AppendMaterial(AppendMaterial(w1, m.shelf, wood),
                                            m.backing, wood), m.crown, wood)
    IN  AppendToEach(w2, m.brackets, 1, metal)

MonoMaterials ==
    /\ mono.pc = "positioned"
    /\ mono' = [mono EXCEPT !.pc = "materials",
                            !.w = IF mono.args.no_materials THEN @
                                  ELSE MonoAssignMaterials(mono)]
    /\ UNCHANGED << call, tw, modu >>

MonoExport ==
    /\ mono.pc = "materials"
    /\ \E fs_ok \in BOOLEAN, host_ok \in BOOLEAN :
          mono' = MonoAfter(mono, export_shelf(mono.w, mono.args.export_path,
                                               mono.args.export_format, fs_ok, host_ok),
                            "exported")
    /\ UNCHANGED << call, tw, modu >>

MonoSaveInfo ==
    /\ mono.pc = "exported"
    /\ mono' = MonoAfter(mono, save_generation_info(mono.w, mono.args.export_path,
                                                    GenerationParameters(mono.args)),
                         "saved")
    /\ UNCHANGED << call, tw, modu >>

MonoFinish ==
    /\ mono.pc = "saved"
    /\ mono' = [mono EXCEPT !.pc = "done", !.exit = 0,
                            !.w = Say(@, "=== Shelf generation complete! ===")]
    /\ UNCHANGED << call, tw, modu >>

MonoEnded == mono.pc \in {"done", "traceback", "usage"}

MonoNext ==
    \/ MonoParse
    \/ MonoClear
    \/ MonoCreateShelf
    \/ MonoCreateBrackets
    \/ MonoCreateBacking
    \/ MonoCreateCrown
    \/ MonoPosition
    \/ MonoMaterials
    \/ MonoExport
    \/ MonoSaveInfo
    \/ MonoFinish

(* ---------------------------------------------------------------------- *)
(* gen_shelf_modular.py                                                     *)
(* ---------------------------------------------------------------------- *)
NoAssembly == [main_shelf |-> 0, brackets |-> << >>, backing |-> 0, crown |-> 0,
               all_objects |-> << >>]

\* the environment: BLENDER_OUTPUT_DIR set to a directory, or not set
Environments == {Absent, "/tmp/out"}

ModuStart(env, scene) ==
    [pc |-> "import", env |-> env, w |-> scene, assembly |-> NoAssembly,
     output_dir |-> "", fmt |-> 1, exit |-> -1]

ExportFormats == << "FBX", "OBJ", "GLTF" >>

\* a variant of the handler that reports the error and lets main return normally
MainExcept_Swallow(m, w) ==
    [m EXCEPT !.pc = "exit0", !.exit = 0,
              !.w = [Say(w, "Error during shelf generation") EXCEPT !.raised = NoException]]

\* main, lines 133-137: the handler of the top-level try
MainExcept(m, w) ==
    [m EXCEPT !.pc = "exit1", !.exit = 1,
              !.w = [Say(w, "Error during shelf generation") EXCEPT !.raised = NoException]]

\* a step inside main's try: on an exception the handler runs, else main goes on
ModuAfter(m, w, pc) ==
    IF w.raised # NoException THEN MainExcept(m, w) ELSE [m EXCEPT !.w = w, !.pc = pc]

\* a host call that fails raises; ok = FALSE stands for any exception of the step
HostStep(w, ok) == IF ok THEN w ELSE [w EXCEPT !.raised = "RuntimeError"]

\* lines 17-27: the import guard
ModuImport ==
    /\ MonoEnded
    /\ modu.pc = "import"
    /\ \E ok \in BOOLEAN :
          modu' = IF ok THEN [modu EXCEPT !.pc = "main"]
                  ELSE [modu EXCEPT !.pc = "exit1", !.exit = 1,
                                    !.w = Say(@, "Error importing Blender modules")]
    /\ UNCHANGED << call, tw, mono >>

\* lines 121, 37-43: banner, setup_scene, create_collection
ModuSetup ==
    /\ modu.pc = "main"
    /\ \E ok \in BOOLEAN :
          LET w0 == Say(Say(modu.w, "=== Blender Blockbuster Shelf Generator ==="),
                        "Starting shelf generation...")
              w1 == create_collection(setup_scene(w0), "BlockbusterShelf")
          IN  modu' = ModuAfter(modu, IF ok THEN w1 ELSE HostStep(w0, FALSE), "setup")
    /\ UNCHANGED << call, tw, mono >>

\* lines 54-59
ModuShelf ==
    /\ modu.pc = "setup"
    /\ \E ok \in BOOLEAN :
          LET id == modu.w.next_id
              w1 == create_main_shelf(Say(modu.w, "Creating main shelf..."), "MainShelf",
                                      RInt(2), Tenths(1), Tenths(6))
              w2 == add_shelf_material(w1, id, Color(50, 50, 50))
              m1 == [modu EXCEPT !.assembly.main_shelf = id,
                                 !.assembly.all_objects = Append(@, id)]
          IN  modu' = IF ok THEN ModuAfter(m1, w2, "shelf")
                      ELSE ModuAfter(modu, HostStep(w1, FALSE), "shelf")
    /\ UNCHANGED << call, tw, mono >>

RECURSIVE BracketMaterials(_, _, _)
BracketMaterials(w, brackets, k) ==
    IF k > Len(brackets) THEN w
    ELSE BracketMaterials(add_bracket_material(w, brackets[k], Color(50, 50, 50)),
                          brackets, k + 1)

\* lines 61-68
ModuBrackets ==
    /\ modu.pc = "shelf"
    /\ \E ok \in BOOLEAN :
          LET w0 == Say(modu.w, "Creating bracket supports...")
              brackets == BracketsReturned(w0, 3)
              w1 == position_brackets_on_shelf(w0, modu.assembly.main_shelf, 3)
              w2 == BracketMaterials(w1, brackets, 1)
              m1 == [modu EXCEPT !.assembly.brackets = brackets,
                                 !.assembly.all_objects = @ \o brackets]
          IN  modu' = IF ok THEN ModuAfter(m1, w2, "brackets")
                      ELSE ModuAfter(modu, HostStep(w1, FALSE), "brackets")
    /\ UNCHANGED << call, tw, mono >>

\* lines 70-76
ModuBacking ==
    /\ modu.pc = "brackets"
    /\ \E ok \in BOOLEAN :
          LET id == modu.w.next_id
              w1 == create_backing_plane(Say(modu.w, "Creating backing plane..."), "Backing",
                                         R(22, 10), R(3, 2), Hundredths(2))
              w2 == position_backing_behind_shelf(w1, id, modu.assembly.main_shelf,
                                                  Hundredths(1))
              w3 == add_backing_material(w2, id, Color(70, 65, 55))
              m1 == [modu EXCEPT !.assembly.backing = id,
                                 !.assembly.all_objects = Append(@, id)]
          IN  modu' = IF ok THEN ModuAfter(m1, w3, "backing")
                      ELSE ModuAfter(modu, HostStep(w1, FALSE), "backing")
    /\ UNCHANGED << call, tw, mono >>

\* lines 78-84
ModuCrown ==
    /\ modu.pc = "backing"
    /\ \E ok \in BOOLEAN :
          LET id == modu.w.next_id
              w1 == create_crown_topper(Say(modu.w, "Creating decorative crown..."), "Crown",
                                        R(22, 10), R(15, 100), Tenths(1))
              w2 == position_crown_above_backing(w1, id, modu.assembly.backing, Tenths(1))
              w3 == add_crown_material(w2, id, Color(40, 40, 40))
              m1 == [modu EXCEPT !.assembly.crown = id,
                                 !.assembly.all_objects = Append(@, id)]
          IN  modu' = IF ok THEN ModuAfter(m1, w3, "crown")
                      ELSE ModuAfter(modu, HostStep(w1, FALSE), "crown")
    /\ UNCHANGED << call, tw, mono >>

\* lines 86-91
ModuOrganize ==
    /\ modu.pc = "crown"
    /\ \E ok \in BOOLEAN :
          LET w0 == Say(modu.w, "Organizing objects...")
              w1 == move_objects_to_collection(w0, modu.assembly.all_objects, 1,
                                               "BlockbusterShelf")
          IN  modu' = IF ok THEN ModuAfter(modu, Say(w1, "Shelf generation complete!"),
                                           "generated")
                      ELSE ModuAfter(modu, HostStep(w0, FALSE), "generated")
    /\ UNCHANGED << call, tw, mono >>

\* main line 128 and export_shelf_models lines 102-108
ModuMakeDirs ==
    /\ modu.pc = "generated"
    /\ \E fs_ok \in BOOLEAN :
          LET output_dir == IF modu.env = Absent THEN "/app/steamvr-addon/models"
                            ELSE modu.env
              w1 == MakeDirs(Say(modu.w, "Exporting shelf models"), output_dir, fs_ok)
          IN  modu' = ModuAfter([modu EXCEPT !.output_dir = output_dir, !.fmt = 1],
                                w1, "export")
    /\ UNCHANGED << call, tw, mono >>

\* a variant of the loop body that lets the exception of a failed export escape
ExportOneFormat_Reraise(w, objects, output_dir, fmt, host_ok) ==
    LET filepath == PathJoin(output_dir, "blockbuster_shelf." \o Lower(fmt))
        w1 == export_shelf_assembly(w, objects, filepath, fmt, host_ok)
    IN  IF w1.raised = NoException THEN Say(w1, "Exported " \o fmt)
        ELSE Say(w1, "Failed to export " \o fmt)

\* export_shelf_models lines 110-116: one turn of the loop over the formats
ExportOneFormat(w, objects, output_dir, fmt, host_ok) ==
    LET filepath == PathJoin(output_dir, "blockbuster_shelf." \o Lower(fmt))
        w1 == export_shelf_assembly(w, objects, filepath, fmt, host_ok)
    IN  IF w1.raised = NoException THEN Say(w1, "Exported " \o fmt)
        ELSE [Say(w1, "Failed to export " \o fmt) EXCEPT !.raised = NoException]

ModuExportFormat ==
    /\ modu.pc = "export"
    /\ modu.fmt <= Len(ExportFormats)
    /\ \E host_ok \in BOOLEAN :
          modu' = ModuAfter([modu EXCEPT !.fmt = @ + 1],
                            ExportOneFormat(modu.w, modu.assembly.all_objects,
                                            modu.output_dir, ExportFormats[modu.fmt], host_ok),
                            "export")
    /\ UNCHANGED << call, tw, mono >>

\* a variant of the end of main that reports success only when a mesh file
\* was written
ModuSuccess_NeedsAFile ==
    /\ modu.pc = "export"
    /\ modu.fmt > Len(ExportFormats)
    /\ modu' = IF \E f \in DOMAIN modu.w.files : modu.w.files[f].kind = "mesh"
               THEN [modu EXCEPT !.pc = "exit0", !.exit = 0,
                                 !.w = Say(@, "=== Shelf generation completed successfully! ===")]
               ELSE [modu EXCEPT !.pc = "exit1", !.exit = 1]
    /\ UNCHANGED << call, tw, mono >>

\* main line 131 and the normal return
ModuSuccess ==
    /\ modu.pc = "export"
    /\ modu.fmt > Len(ExportFormats)
    /\ modu' = [modu EXCEPT !.pc = "exit0", !.exit = 0,
                            !.w = Say(@, "=== Shelf generation completed successfully! ===")]
    /\ UNCHANGED << call, tw, mono >>

ModuEnded == modu.pc \in {"exit0", "exit1"}

ModuNext ==
    \/ ModuImport
    \/ ModuSetup
    \/ ModuShelf
    \/ ModuBrackets
    \/ ModuBacking
    \/ ModuCrown
    \/ ModuOrganize
    \/ ModuMakeDirs
    \/ ModuExportFormat
    \/ ModuSuccess

(* ---------------------------------------------------------------------- *)
(* The two scripts, each on its own host: gen_shelf.py runs to its end,    *)
(* then gen_shelf_modular.py                                                *)
(* ---------------------------------------------------------------------- *)
InitMain ==
    /\ call = [op |-> "none"]
    /\ tw = EmptyWorld
    /\ \E scene \in InitialScenes :
          /\ \E cmd \in CommandLines : mono = MonoStart(cmd, scene)
          /\ \E env \in Environments : modu = ModuStart(env, scene)

NextMain ==
    \/ MonoNext
    \/ ModuNext

SpecMain == InitMain /\ [][NextMain]_vars

(* ====================================================================== *)
(* Properties of the library calls                                          *)
(* ====================================================================== *)
PositionedBrackets == call.op = "position_brackets_on_shelf"
BracketX(i) == tw.objects[call.ret[i + 1]].location.x
ShelfOfCall == tw.objects[call.shelf]

\* C1: position_brackets_on_shelf returns exactly bracket_count brackets; a
\* single bracket sits at the shelf's X; for more than one, bracket i is at
\* shelf.x + (i/(N-1) - 1/2) * 0.8 * shelf_width, the positions are symmetric
\* about shelf.x, consecutive brackets are equally spaced and the first and the
\* last are 80% of the shelf width apart.
C1_BracketPositions ==
    PositionedBrackets =>
        LET n == call.bracket_count
            sx == ShelfOfCall.location.x
            sw == Dimensions(ShelfOfCall).x
        IN  /\ Len(call.ret) = n
            /\ Cardinality({call.ret[k] : k \in 1..n}) = n
            /\ Ids(tw) = {call.shelf} \cup {call.ret[k] : k \in 1..n}
            /\ n = 1 => BracketX(0) = sx
            /\ n > 1 =>
                /\ \A i \in 0..(n - 1) :
                    /\ BracketX(i) =
                         RAdd(sx, RMul(RMul(RSub(R(i, n - 1), R(1, 2)), R(4, 5)), sw))
                    /\ RAdd(BracketX(i), BracketX(n - 1 - i)) = RMul(RInt(2), sx)
                /\ \A i \in 0..(n - 2) :
                    RSub(BracketX(i + 1), BracketX(i)) = RSub(BracketX(1), BracketX(0))
                /\ RSub(BracketX(n - 1), BracketX(0)) = RMul(R(4, 5), sw)

\* C1 case: three brackets placed under a shelf that is not at the origin
C1_Witness ==
    /\ PositionedBrackets
    /\ call.bracket_count = 3
    /\ ShelfOfCall.location.x = RInt(1)
    /\ BracketX(0) # BracketX(2)

\* C2: after positioning, the backing's Y is the shelf's Y minus half the
\* shelf depth minus the clearance: for position_backing_behind_shelf with
\* every offset, and with the clearance 0.01 and the shelf at Y = 0 for the
\* monolithic position_components.
C2_BackingBehindShelf ==
    /\ call.op = "position_backing_behind_shelf" =>
         tw.objects[call.backing].location.y =
            RSub(RSub(tw.objects[call.shelf].location.y,
                      RMul(Dimensions(tw.objects[call.shelf]).y, R(1, 2))),
                 call.offset)
    /\ call.op = "position_components" =>
         /\ tw.objects[call.shelf].location.y = Zero
         /\ tw.objects[call.backing].location.y =
              RSub(RSub(Zero, RMul(call.shelf_depth, R(1, 2))), R(1, 100))

\* C2 case: a backing placed behind a shelf away from the origin with a
\* non-zero clearance
C2_Witness ==
    /\ call.op = "position_backing_behind_shelf"
    /\ call.offset = Tenths(1)
    /\ tw.objects[call.shelf].location.y = Half
    /\ tw.objects[call.backing].location.y # tw.objects[call.shelf].location.y

\* C3 as stated: in both variants the crown's Z is the backing's Z plus half
\* the backing's height plus the upward offset (0.08 in position_components).
C3_CrownAboveBackingBoth ==
    /\ call.op = "position_crown_above_backing" =>
         tw.objects[call.crown].location.z =
            RAdd(RAdd(tw.objects[call.backing].location.z,
                      RMul(Dimensions(tw.objects[call.backing]).z, R(1, 2))),
                 call.height_offset)
    /\ call.op = "position_components" =>
         tw.objects[call.crown].location.z =
            RAdd(RAdd(tw.objects[call.backing].location.z,
                      RMul(Dimensions(tw.objects[call.backing]).z, R(1, 2))),
                 R(8, 100))

\* C3 amended: position_crown_above_backing puts the crown's Z at the
\* backing's Z plus half the backing's height plus height_offset; the
\* monolithic position_components puts it at half the shelf height plus 0.08,
\* which is the backing's Z plus 0.08 whatever the backing's height.
C3_CrownPlacement ==
    /\ call.op = "position_crown_above_backing" =>
         tw.objects[call.crown].location.z =
            RAdd(RAdd(tw.objects[call.backing].location.z,
                      RMul(Dimensions(tw.objects[call.backing]).z, R(1, 2))),
                 call.height_offset)
    /\ call.op = "position_components" =>
         /\ tw.objects[call.crown].location.z = RAdd(RMul(call.shelf_height, R(1, 2)), R(8, 100))
         /\ tw.objects[call.crown].location.z =
              RAdd(tw.objects[call.backing].location.z, R(8, 100))

\* C3 case: a crown placed above a backing of height 2 with offset 0.1
C3_Witness ==
    /\ call.op = "position_crown_above_backing"
    /\ Dimensions(tw.objects[call.backing]).z = RInt(2)
    /\ call.height_offset = Tenths(1)
    /\ tw.objects[call.backing].location.z # Zero

Printed(w, msg) == \E k \in 1..Len(w.out) : w.out[k] = msg

\* C4: for both export entry points, a format string outside the entry
\* point's supported set ends in an error, calls no host exporter and does not
\* report the shelf as exported.
C4_UnsupportedFormatIsAnError ==
    /\ (call.op = "export_shelf_assembly"
          /\ Upper(call.file_format) \notin {"FBX", "OBJ", "GLTF"}) =>
         /\ tw.raised # NoException
         /\ tw.calls = << >>
    /\ (call.op = "export_shelf"
          /\ Upper(call.export_format) \notin {"FBX", "OBJ", "PLY"}) =>
         /\ tw.raised # NoException
         /\ tw.calls = << >>
         /\ ~Printed(tw, "Shelf exported to")

\* C10: for every positive width, height and depth the shelf base returned by
\* either builder (create_main_shelf, create_shelf_base) is a box of 8 vertices
\* and 6 faces centred at the origin whose bounding box is exactly
\* (width, depth, height) along X, Y, Z.
C10_ShelfBaseBox ==
    call.op \in {"create_main_shelf", "create_shelf_base"} =>
        LET shelf == tw.objects[call.ret]
            hw == RMul(call.width, R(1, 2))
            hd == RMul(call.depth, R(1, 2))
            hh == RMul(call.height, R(1, 2))
        IN  /\ shelf.location = Origin
            /\ Len(shelf.data.verts) = 8 /\ Len(shelf.data.faces) = 6
            /\ BBoxMin(shelf.data) = Vec(RNeg(hw), RNeg(hd), RNeg(hh))
            /\ BBoxMax(shelf.data) = Vec(hw, hd, hh)
            /\ Dimensions(shelf) = Vec(call.width, call.depth, call.height)

\* reached: create_shelf_base has returned a 2.0 x 0.4 x 0.3 shelf that spans
\* [-1, 1] x [-0.2, 0.2] x [-0.15, 0.15] after its hollowing steps
C10_Witness ==
    /\ call.op = "create_shelf_base"
    /\ call.width = RInt(2) /\ call.depth = Tenths(4) /\ call.height = Tenths(3)
    /\ tw.objects[call.ret].name = "ShelfBase"
    /\ BBoxMin(tw.objects[call.ret].data) = Vec(RInt(-1), R(-1, 5), R(-3, 20))
    /\ BBoxMax(tw.objects[call.ret].data) = Vec(RInt(1), R(1, 5), R(3, 20))

(* ====================================================================== *)
(* Properties of the two scripts                                            *)
(* ====================================================================== *)
SidecarPath(dir) == PathJoin(dir, "shelf_info.json")
MeshPath(dir, fmt) == PathJoin(dir, "blockbuster_shelf." \o Lower(fmt))
HasFile(w, path) == path \in DOMAIN w.files
MonoSidecarWritten == HasFile(mono.w, SidecarPath(mono.args.export_path))
MonoParameters == mono.w.files[SidecarPath(mono.args.export_path)].content.parameters

\* the value argparse gives an option: that of the token after "--", else the default
GivenFloat(opt, default) ==
    IF mono.argv.dashdash /\ mono.argv[opt] # Absent THEN ParseFloat(mono.argv[opt])
    ELSE default
GivenString(opt, default) ==
    IF mono.argv.dashdash /\ mono.argv[opt] # Absent THEN mono.argv[opt] ELSE default
GivenFlag(opt) == mono.argv.dashdash /\ mono.argv[opt]

\* C5 as stated: the "parameters" object of shelf_info.json holds every
\* command line argument (width, height, depth, backing_height, pegboard,
\* export_format, export_path, no_materials) with its parsed value, and
\* nothing else.
C5_SidecarEchoesEveryArgument ==
    mono.pc = "done" =>
        /\ MonoSidecarWritten
        /\ MonoParameters =
             [width |-> GivenFloat("width", RInt(2)),
              height |-> GivenFloat("height", R(3, 10)),
              depth |-> GivenFloat("depth", R(4, 10)),
              backing_height |-> GivenFloat("backing_height", R(3, 2)),
              pegboard |-> GivenFlag("pegboard"),
              export_format |-> GivenString("export_format", "FBX"),
              export_path |-> GivenString("export_path", "/app/output"),
              no_materials |-> GivenFlag("no_materials")]

\* C5 amended: the "parameters" object holds exactly the six arguments width,
\* height, depth, backing_height, pegboard and export_format, each with its
\* parsed value (the default when the option is not given after "--");
\* export_path and no_materials are not written.
C5_SidecarEchoesSixArguments ==
    mono.pc \in {"saved", "done"} =>
        /\ MonoSidecarWritten
        /\ MonoParameters =
             [width |-> GivenFloat("width", RInt(2)),
              height |-> GivenFloat("height", R(3, 10)),
              depth |-> GivenFloat("depth", R(4, 10)),
              backing_height |-> GivenFloat("backing_height", R(3, 2)),
              pegboard |-> GivenFlag("pegboard"),
              export_format |-> GivenString("export_format", "FBX")]

\* C5 case: a finished run that was given a height and a depth
C5_Witness ==
    /\ mono.pc = "done"
    /\ mono.argv.dashdash /\ mono.argv.height = "0.1" /\ mono.argv.depth = "0.6"
    /\ MonoSidecarWritten
    /\ MonoParameters.height = Tenths(1) /\ MonoParameters.depth = Tenths(6)

InExportLoop == modu.pc = "export" \/ modu.pc = "exit0"
ModuExported(fmt) == Printed(modu.w, "Exported " \o fmt)
ModuFailed(fmt) == Printed(modu.w, "Failed to export " \o fmt)

\* C6: export_shelf_models attempts FBX, OBJ and GLTF once each, in that
\* order, whatever the earlier attempts did: after k turns of the loop the
\* host exporters were called k times, for the first k formats in order; each
\* attempted format was either exported (its file is there and stays there) or
\* logged as failed; no exception is pending, and once the output directory
\* exists the run never ends in the handler of main.
C6_EveryFormatAttempted ==
    /\ InExportLoop =>
         LET n == modu.fmt - 1
         IN  /\ Len(modu.w.calls) = n
             /\ \A k \in 1..n :
                  /\ modu.w.calls[k].op = Lower(ExportFormats[k])
                  /\ modu.w.calls[k].filepath = MeshPath(modu.output_dir, ExportFormats[k])
                  /\ ModuExported(ExportFormats[k]) # ModuFailed(ExportFormats[k])
                  /\ ModuExported(ExportFormats[k]) <=>
                        HasFile(modu.w, MeshPath(modu.output_dir, ExportFormats[k]))
             /\ \A k \in (n + 1)..Len(ExportFormats) :
                  ~ModuExported(ExportFormats[k]) /\ ~ModuFailed(ExportFormats[k])
             /\ modu.w.raised = NoException
             /\ modu.pc = "exit0" => n = 3
    /\ modu.output_dir \in modu.w.dirs => modu.pc # "exit1"

\* C6 case: the first export failed, the second wrote its file, the third failed
C6_Witness ==
    /\ modu.pc = "exit0"
    /\ ModuFailed("FBX") /\ ModuExported("OBJ") /\ ModuFailed("GLTF")
    /\ HasFile(modu.w, MeshPath(modu.output_dir, "OBJ"))

SuccessMessage == "=== Shelf generation completed successfully! ==="

C7_Outcomes ==
    /\ modu.pc = "exit1" => modu.exit = 1 /\ ~Printed(modu.w, SuccessMessage)
    /\ modu.pc = "exit0" =>
         /\ modu.exit = 0
         /\ Printed(modu.w, SuccessMessage)
         /\ ~Printed(modu.w, "Error during shelf generation")
    /\ ~ModuEnded => modu.exit = -1 /\ ~Printed(modu.w, SuccessMessage)
    /\ Printed(modu.w, "Error during shelf generation") => modu.pc = "exit1"
    /\ modu.w.raised = NoException

\* the position of the modular script, counted in statements groups from its start
ModuRank(m) ==
    CASE m.pc = "import" -> 0
      [] m.pc = "main" -> 1
      [] m.pc = "setup" -> 2
      [] m.pc = "shelf" -> 3
      [] m.pc = "brackets" -> 4
      [] m.pc = "backing" -> 5
      [] m.pc = "crown" -> 6
      [] m.pc = "generated" -> 7
      [] m.pc = "export" -> 7 + m.fmt
      [] m.pc \in {"exit0", "exit1"} -> 8 + Len(ExportFormats) + 1

\* every step of the script moves it strictly forward, and none leaves an end
C7_Advances ==
    modu' # modu => ~ModuEnded /\ ModuRank(modu') > ModuRank(modu)

\* C7: the modular main always ends in one of two outcomes, with exit status
\* 1 when an exception reached the top-level handler and with status 0 after
\* the success message otherwise; the success message is never printed on a
\* run that exits with 1.  Ending: the script is always at one of finitely
\* many positions, every step moves it strictly forward (the loop over the
\* formats included), and an exit status is set at exit0 and exit1 only.
C7_MainTerminates ==
    /\ [](C7_Outcomes)
    /\ [](ModuRank(modu) \in 0..(8 + Len(ExportFormats) + 1))
    /\ [](modu.pc = "export" => modu.fmt \in 1..(Len(ExportFormats) + 1))
    /\ [][C7_Advances]_vars

\* C7 case: an exception in the middle of generation, caught by the handler
C7_Witness ==
    /\ modu.pc = "exit1"
    /\ Printed(modu.w, "Creating backing plane...")
    /\ Printed(modu.w, "Error during shelf generation")
    /\ modu.exit = 1

BothFinished == mono.pc = "done" /\ modu.pc = "exit0"

\* the monolithic run was given the shelf parameters the modular script uses
SameParameters ==
    /\ mono.args.width = RInt(2)
    /\ mono.args.height = Tenths(1)
    /\ mono.args.depth = Tenths(6)
    /\ mono.args.backing_height = R(3, 2)

MonoLoc(id) == mono.w.objects[id].location
ModuLoc(id) == modu.w.objects[id].location
MeshFormats(w) == {w.files[f].format : f \in {g \in DOMAIN w.files : w.files[g].kind = "mesh"}}
HasSidecar(w) == \E f \in DOMAIN w.files : w.files[f].kind = "json"

\* offsets of the brackets from the shelf along X, as a set
MonoBracketOffsets ==
    {RSub(MonoLoc(mono.brackets[k]).x, MonoLoc(mono.shelf).x) : k \in 1..Len(mono.brackets)}
ModuBracketOffsets ==
    {RSub(ModuLoc(modu.assembly.brackets[k]).x, ModuLoc(modu.assembly.main_shelf).x) :
        k \in 1..Len(modu.assembly.brackets)}

\* C8 as stated: run on the same shelf parameters the two scripts end with the
\* same components (as many brackets), the same placement of the brackets,
\* the backing and the crown relative to the shelf, and the same kinds of
\* output files.
C8_ScriptsEquivalent ==
    (BothFinished /\ SameParameters) =>
        /\ Len(mono.brackets) = Len(modu.assembly.brackets)
        /\ MonoBracketOffsets = ModuBracketOffsets
        /\ RSub(MonoLoc(mono.backing).y, MonoLoc(mono.shelf).y) =
             RSub(ModuLoc(modu.assembly.backing).y, ModuLoc(modu.assembly.main_shelf).y)
        /\ RSub(MonoLoc(mono.crown).z, MonoLoc(mono.backing).z) =
             RSub(ModuLoc(modu.assembly.crown).z, ModuLoc(modu.assembly.backing).z)
        /\ MeshFormats(mono.w) = MeshFormats(modu.w)
        /\ HasSidecar(mono.w) = HasSidecar(modu.w)

\* C8 amended: the scripts are not equivalent.  Run on the same shelf
\* parameters both end with one shelf, one backing and one crown and with the
\* backing 0.01 behind the shelf's back face; the monolithic script has 4
\* brackets at +/-40% of the width and the modular one 3 at -40%, 0 and +40%;
\* the monolithic crown is 0.08 above the backing's centre and the modular one
\* a half backing height plus 0.1 above it; the monolithic script writes one
\* mesh file (FBX, OBJ or PLY) and the sidecar, the modular one up to three
\* (FBX, OBJ, GLTF) and no sidecar.
C8_ScriptsCorrespond ==
    (BothFinished /\ SameParameters) =>
        /\ mono.shelf \in Ids(mono.w) /\ modu.assembly.main_shelf \in Ids(modu.w)
        /\ mono.backing \in Ids(mono.w) /\ modu.assembly.backing \in Ids(modu.w)
        /\ mono.crown \in Ids(mono.w) /\ modu.assembly.crown \in Ids(modu.w)
        /\ {i \in Ids(mono.w) : ~mono.w.objects[i].hide} =
              {mono.shelf, mono.backing, mono.crown} \cup {mono.brackets[k] : k \in 1..4}
        /\ {i \in Ids(modu.w) : modu.w.objects[i].type = "MESH"} =
              {modu.assembly.all_objects[k] : k \in 1..6}
        /\ Len(mono.brackets) = 4 /\ Len(modu.assembly.brackets) = 3
        /\ MonoBracketOffsets = {R(4, 5), R(-4, 5)}
        /\ ModuBracketOffsets = {R(-4, 5), Zero, R(4, 5)}
        /\ RSub(MonoLoc(mono.backing).y, MonoLoc(mono.shelf).y) = R(-31, 100)
        /\ RSub(ModuLoc(modu.assembly.backing).y, ModuLoc(modu.assembly.main_shelf).y)
             = R(-31, 100)
        /\ RSub(MonoLoc(mono.crown).z, MonoLoc(mono.backing).z) = R(8, 100)
        /\ RSub(ModuLoc(modu.assembly.crown).z, ModuLoc(modu.assembly.backing).z)
             = R(85, 100)
        /\ Cardinality(MeshFormats(mono.w)) = 1
        /\ MeshFormats(mono.w) \subseteq {"fbx", "obj", "ply"}
        /\ MeshFormats(modu.w) \subseteq {"fbx", "obj", "gltf"}
        /\ HasSidecar(mono.w) /\ ~HasSidecar(modu.w)

\* C8 case: both scripts finished on the same parameters, all exports done
C8_Witness ==
    /\ BothFinished /\ SameParameters
    /\ MeshFormats(modu.w) = {"fbx", "obj", "gltf"}
    /\ MeshFormats(mono.w) = {"fbx"}

ModuMeshFile(fmt) == HasFile(modu.w, MeshPath(modu.output_dir, fmt))

\* C9 as stated: a run of either script that completes leaves in the output
\* directory, created when absent, one geometry file per requested format and
\* the shelf_info.json sidecar with the generation parameters.
C9_FilesAndSidecarBoth ==
    /\ mono.pc = "done" =>
         /\ mono.args.export_path \in mono.w.dirs
         /\ HasFile(mono.w, MeshPath(mono.args.export_path, mono.args.export_format))
         /\ MonoSidecarWritten
    /\ modu.pc = "exit0" =>
         /\ modu.output_dir \in modu.w.dirs
         /\ \A k \in 1..Len(ExportFormats) : ModuMeshFile(ExportFormats[k])
         /\ HasFile(modu.w, SidecarPath(modu.output_dir))

\* C9 amended: a monolithic run that reports completion has created the output
\* directory and left in it the geometry file of the requested format and
\* shelf_info.json holding the generation parameters; a modular run that
\* reports success has created the directory and left the file of each of
\* FBX, OBJ and GLTF whose export did not fail, possibly none, and no sidecar.
C9_FilesAndSidecar ==
    /\ Printed(mono.w, "=== Shelf generation complete! ===") =>
         /\ mono.pc = "done"
         /\ mono.args.export_path \in mono.w.dirs
         /\ HasFile(mono.w, MeshPath(mono.args.export_path, mono.args.export_format))
         /\ mono.w.files[MeshPath(mono.args.export_path, mono.args.export_format)].kind = "mesh"
         /\ MonoSidecarWritten
         /\ MonoParameters = GenerationParameters(mono.args)
         /\ Cardinality(DOMAIN mono.w.files) = 2
    /\ Printed(modu.w, SuccessMessage) =>
         /\ modu.pc = "exit0"
         /\ modu.output_dir \in modu.w.dirs
         /\ \A k \in 1..Len(ExportFormats) :
               ModuMeshFile(ExportFormats[k]) <=> ~ModuFailed(ExportFormats[k])
         /\ ~HasSidecar(modu.w)

\* C9 case: a monolithic run that completed with the PLY format into /tmp/out,
\* followed by a modular run whose three exports all failed
C9_Witness ==
    /\ mono.pc = "done"
    /\ mono.args.export_format = "PLY" /\ mono.args.export_path = "/tmp/out"
    /\ HasFile(mono.w, "/tmp/out/blockbuster_shelf.ply")
    /\ HasFile(mono.w, "/tmp/out/shelf_info.json")
    /\ modu.pc = "exit0" /\ DOMAIN modu.w.files = {}

(* ====================================================================== *)
(* Properties of the material assignments                                   *)
(* ====================================================================== *)
\* C11: every mesh object holds zero or one material reference in every
\* reachable state: after any sequence of add_shelf_material,
\* add_backing_material, add_crown_material, add_bracket_material and
\* materials.append, applied any number of times to the same object, the
\* object's material list has length at most 1.
C11_AtMostOneMaterial ==
    \A i \in Ids(tw) : Len(tw.objects[i].materials) <= 1


(* ====================================================================== *)
(* Properties of the meshes                                                 *)
(* ====================================================================== *)
\* every face of mesh m names vertices of m only, each at most once
FacesValid(m) ==
    \A f \in AllFaces(m) :
        /\ \A j \in 1..Len(m.faces[f]) : m.faces[f][j] \in 1..Len(m.verts)
        /\ \A j, k \in 1..Len(m.faces[f]) : m.faces[f][j] = m.faces[f][k] => j = k

\* C12: every mesh built from explicit vertex and face data keeps the
\* face-index invariant: each face names only vertices of the object's vertex
\* list and no vertex twice; the 5 faces of create_support_bracket index into
\* its 6 vertices for every width, height and depth; and the positioning and
\* material operations that follow preserve it.
C12_FaceIndicesValid ==
    /\ \A i \in Ids(tw) : FacesValid(tw.objects[i].data)
    /\ call.op = "create_support_bracket" =>
          /\ Len(tw.objects[call.ret].data.verts) = 6
          /\ Len(tw.objects[call.ret].data.faces) = 5
          /\ FaceVerts(tw.objects[call.ret].data, 1..5) = 1..6
    /\ call.op = "position_components" =>
          \A k \in 1..Len(call.brackets) :
              tw.objects[call.brackets[k]].data
                  = SupportBracketMesh(R(15, 100), Tenths(2), Tenths(3))

\* C12 case: a bracket built by create_support_bracket with distinct dimensions
C12_Witness ==
    /\ call.op = "create_support_bracket"
    /\ call.width = Tenths(1) /\ call.height = Tenths(2) /\ call.depth = Tenths(3)
    /\ tw.objects[call.ret].name = "SupportBracket"
    /\ tw.objects[call.ret].data.faces[5] = << 1, 3, 6, 4 >>


(* ====================================================================== *)
(* Properties of the order of the stages                                    *)
(* ====================================================================== *)
Range(s) == {s[k] : k \in 1..Len(s)}
MonoComponents == ({mono.shelf, mono.backing, mono.crown} \cup Range(mono.brackets)) \ {0}
ModuComponents == Range(modu.assembly.all_objects)

\* what a run did to its components, and its exports, in order
RunStages(w, components) ==
    SelectSeq(w.stages, LAMBDA e : e.id \in components \/ e.stage = "export")
StagesOf(w, id) == SelectSeq(w.stages, LAMBDA e : e.id = id)

StageRank(stage) ==
    CASE stage = "build" -> 1
      [] stage = "position" -> 2
      [] stage = "material" -> 3
      [] stage = "export" -> 4

\* the stages of s never go back to an earlier one
InPipelineOrder(s) ==
    \A j, k \in 1..Len(s) : j < k => StageRank(s[j].stage) <= StageRank(s[k].stage)
\* the stages of s are each later than the one before
EachStageOnce(s) ==
    \A j, k \in 1..Len(s) : j < k => StageRank(s[j].stage) < StageRank(s[k].stage)

Did(w, stage, id) == \E k \in 1..Len(w.stages) : w.stages[k] = [stage |-> stage, id |-> id]
ExportStarted(w) == Did(w, "export", 0)

\* when the export of the monolithic script starts the shelf, four brackets,
\* the backing and the crown are built, all but the shelf (which stays where
\* it was built) are positioned, and each has a material unless --no-materials
MonoReadyAtExport ==
    ExportStarted(mono.w) =>
        /\ mono.shelf # 0 /\ mono.backing # 0 /\ mono.crown # 0 /\ Len(mono.brackets) = 4
        /\ \A c \in MonoComponents :
              /\ Did(mono.w, "build", c)
              /\ c # mono.shelf => Did(mono.w, "position", c)
              /\ Did(mono.w, "material", c) <=> ~mono.args.no_materials

ModuReadyAtExport ==
    ExportStarted(modu.w) =>
        /\ Len(modu.assembly.all_objects) = 6 /\ Len(modu.assembly.brackets) = 3
        /\ \A c \in ModuComponents :
              /\ Did(modu.w, "build", c)
              /\ c # modu.assembly.main_shelf => Did(modu.w, "position", c)
              /\ Did(modu.w, "material", c)

\* C13 as stated: each run is one straight-line pipeline build -> position ->
\* material -> export over all components, in either orchestrator: no
\* component is positioned before every component is built, no material is
\* assigned before every component is positioned, export starts only after
\* all of it, and no stage is re-entered.
C13_SinglePipelineBoth ==
    /\ InPipelineOrder(RunStages(mono.w, MonoComponents))
    /\ InPipelineOrder(RunStages(modu.w, ModuComponents))
    /\ MonoReadyAtExport
    /\ ModuReadyAtExport

\* C13, amended: the monolithic main is one straight-line pipeline build ->
\* position -> material -> export over all components.  The modular script
\* runs the stages component by component (a later component is built after
\* an earlier one got its material).  In both, every component passes build,
\* position, material in that order and each at most once, nothing is built,
\* positioned or assigned once export has started, and export starts only
\* after every component is built, positioned and (unless disabled) has its
\* material.
C13_PipelinePerComponent ==
    /\ InPipelineOrder(RunStages(mono.w, MonoComponents))
    /\ \A c \in MonoComponents : EachStageOnce(StagesOf(mono.w, c))
    /\ \A c \in ModuComponents : EachStageOnce(StagesOf(modu.w, c))
    /\ LET s == RunStages(modu.w, ModuComponents)
       IN  \A j, k \in 1..Len(s) : j < k /\ s[j].stage = "export" => s[k].stage = "export"
    /\ MonoReadyAtExport
    /\ ModuReadyAtExport

\* C13 case: both scripts ran to their end, the monolithic one with materials,
\* and the modular one built its backing after the shelf got its material
C13_Witness ==
    /\ mono.pc = "done" /\ ~mono.args.no_materials
    /\ modu.pc = "exit0"
    /\ LET s == RunStages(modu.w, ModuComponents)
       IN  \E j, k \in 1..Len(s) :
              /\ j < k
              /\ s[j] = [stage |-> "material", id |-> modu.assembly.main_shelf]
              /\ s[k] = [stage |-> "build", id |-> modu.assembly.backing]


(* ====================================================================== *)
(* Properties of the backing panel                                          *)
(* ====================================================================== *)
Built(w) == {w.stages[k].id : k \in {j \in 1..Len(w.stages) : w.stages[j].stage = "build"}}
CutterObjects(w) == {i \in Ids(w) : w.objects[i].name = "PegboardHole"}

\* C14: the cutter of the pegboard operation never outlives
\* create_backing_panel.  Without pegboard no cutter is created and no boolean
\* difference is applied to the panel; with pegboard the cutter is created,
\* used in exactly one boolean difference on the panel and removed before the
\* function returns.  Either way the scene after the call holds the panel and
\* no cutter.
C14_CutterRemoved ==
    call.op = "create_backing_panel" =>
        /\ Ids(tw) = {call.ret}
        /\ tw.objects[call.ret].name = "BackingPanel"
        /\ CutterObjects(tw) = {}
        /\ ~call.pegboard => Built(tw) = {call.ret} /\ tw.booleans = << >>
        /\ call.pegboard =>
              /\ Built(tw) = {call.ret, call.ret + 1}
              /\ tw.booleans = << [target |-> call.ret, cutter |-> call.ret + 1,
                                   operation |-> "DIFFERENCE"] >>

\* C14 case: a pegboard panel was made, its cutter was used and is gone
C14_Witness ==
    /\ call.op = "create_backing_panel" /\ call.pegboard
    /\ Len(tw.booleans) = 1
    /\ tw.booleans[1].cutter \notin Ids(tw)
    /\ tw.booleans[1].target \in Ids(tw)


(* ====================================================================== *)
(* Properties of what is exported                                           *)
(* ====================================================================== *)
\* the objects of the scene the script was started in
MonoBefore == {i \in 1..(mono.w.next_id - 1) : i \notin Built(mono.w)}
ModuBefore == {i \in 1..(modu.w.next_id - 1) : i \notin Built(modu.w)}
ModuSceneAids == {i \in Ids(modu.w) : modu.w.objects[i].type \in {"CAMERA", "LIGHT"}}

\* C15: whatever the scene held before the run, every set of objects handed
\* to an exporter is exactly the assembly built by the run: the shelf, the
\* brackets, the backing and the crown, and no object from before the run, no
\* camera or light of setup_scene and no cutter, both in the monolithic
\* export_shelf and in the modular export_shelf_assembly.
C15_ExportsTheAssembly ==
    /\ \A k \in 1..Len(mono.w.calls) :
          /\ mono.w.calls[k].objects =
                {mono.shelf, mono.backing, mono.crown} \cup Range(mono.brackets)
          /\ Cardinality(mono.w.calls[k].objects) = 7
          /\ mono.w.calls[k].objects \cap MonoBefore = {}
          /\ mono.w.calls[k].objects \cap CutterObjects(mono.w) = {}
    /\ \A k \in 1..Len(modu.w.calls) :
          /\ modu.w.calls[k].objects =
                {modu.assembly.main_shelf, modu.assembly.backing, modu.assembly.crown}
                    \cup Range(modu.assembly.brackets)
          /\ Cardinality(modu.w.calls[k].objects) = 6
          /\ modu.w.calls[k].objects \cap (ModuBefore \cup ModuSceneAids) = {}

\* C15 case: both scripts exported from a scene that held a shelf of an
\* earlier run and a hidden camera, which is still there
C15_Witness ==
    /\ Len(mono.w.calls) = 1 /\ Len(modu.w.calls) = 3
    /\ mono.args.pegboard
    /\ \E i \in Ids(mono.w) : mono.w.objects[i].hide
    /\ \E i \in Ids(modu.w) : modu.w.objects[i].hide
    /\ ModuSceneAids # {}


(* ====================================================================== *)
(* Properties of the monolithic bracket layout                              *)
(* ====================================================================== *)
MonoBracketXs == {tw.objects[call.brackets[k]].location.x : k \in 1..Len(call.brackets)}

\* C16: after position_components the four brackets of the monolithic main
\* have pairwise distinct X locations that are equally spaced and symmetric
\* about the shelf centre, for every shelf width > 0.
C16_MonoBracketsEvenlySpaced ==
    call.op = "position_components" =>
        LET n == Len(call.brackets)
            xs == [k \in 1..n |-> tw.objects[call.brackets[k]].location.x]
            centre == tw.objects[call.shelf].location.x
            lo == RMinOf(xs)
            hi == RMaxOf(xs)
            step == RDiv(RSub(hi, lo), RInt(n - 1))
        IN  /\ n = 4
            /\ \A j, k \in 1..n : j # k => xs[j] # xs[k]
            /\ MonoBracketXs = {RAdd(lo, RMul(RInt(i), step)) : i \in 0..(n - 1)}
            /\ \A x \in MonoBracketXs : RSub(RMul(RInt(2), centre), x) \in MonoBracketXs


C19_MovedToTargetOnly ==
    call.op = "move_objects_to_collection" =>
        \A i \in Ids(tw) :
            IF \E k \in 1..Len(call.objects) : call.objects[k] = i
            THEN tw.objects[i].users_collection = {call.collection}
            ELSE tw.objects[i].users_collection = call.before[i]

C19_Witness ==
    /\ call.op = "move_objects_to_collection"
    /\ call.objects = << 2, 1 >>
    /\ call.before[1] = {}
    /\ call.collection \in call.before[2]
    /\ OtherCollection \in call.before[2]
    /\ tw.objects[3].users_collection = {MasterCollection, OtherCollection}


(* ====================================================================== *)
(* Properties of the exit status of the modular script                      *)
(* ====================================================================== *)
ModuGenerationSucceeded == Printed(modu.w, "Shelf generation complete!")
ModuDirectoryCreated == modu.output_dir \in modu.w.dirs
ModuFailures == {k \in 1..Len(ExportFormats) : ModuFailed(ExportFormats[k])}

\* C18: a failed export of a format never changes the exit status of the
\* modular script: once generate_complete_shelf_assembly has succeeded and the
\* output directory was created, main does not reach its error handler, and
\* it ends with the success message and exit status 0 whether none, some or
\* all of the three exports failed; so exit status 0 does not tell that any
\* mesh file was written.
C18_ExportFailureKeepsStatus ==
    (ModuGenerationSucceeded /\ ModuDirectoryCreated) =>
        /\ modu.pc \in {"export", "exit0"}
        /\ modu.pc = "export" => modu.exit = -1 /\ Cardinality(ModuFailures) <= modu.fmt - 1
        /\ modu.pc = "exit0" =>
             /\ modu.exit = 0
             /\ Printed(modu.w, SuccessMessage)
             /\ ~Printed(modu.w, "Error during shelf generation")
             /\ Cardinality(ModuFailures) \in 0..Len(ExportFormats)
             /\ Cardinality(MeshFormats(modu.w)) = Len(ExportFormats) - Cardinality(ModuFailures)

\* C18 case: all three exports failed, no mesh file is there, and the script
\* has ended with the success message and status 0
C18_Witness ==
    /\ modu.pc = "exit0"
    /\ modu.exit = 0
    /\ Printed(modu.w, SuccessMessage)
    /\ ModuFailures = 1..Len(ExportFormats)
    /\ MeshFormats(modu.w) = {}
    /\ ModuGenerationSucceeded /\ ModuDirectoryCreated


(* ====================================================================== *)
(* Properties of the materials of the monolithic script                     *)
(* ====================================================================== *)
\* the materials the run has created: those after the ones of the scene it
\* was started in
SceneMaterials == Len(StartupWorld.materials)
MonoCreatedMaterials ==
    [k \in 1..(Len(mono.w.materials) - SceneMaterials) |->
        mono.w.materials[SceneMaterials + k].name]
MonoMaterialsOf(id) == mono.w.objects[id].materials
MonoAtExport == mono.pc = "materials" \/ ExportStarted(mono.w)

====
